---- MODULE Spec2Model ----
(***************************************************************************)
(* A model of the bidding core of simple-dsp: the budget ledger            *)
(* (internal/budget), the frequency controller (internal/frequency) and    *)
(* the bidding engine (internal/bidding).                                  *)
(*                                                                         *)
(* Money.  The Go code computes with float64 major units and converts to   *)
(* integer minor units with int64(amount*100).  The model counts money in  *)
(* mills (1/1000 of a major unit), so that a CPM price of 5000 is the bid  *)
(* 5000 mills = 5.0, and a cent is 10 mills.  Floating point rounding is   *)
(* not modelled: arithmetic is exact.                                      *)
(***************************************************************************)
EXTENDS Integers, Sequences, FiniteSets, TLC

VARIABLES
    \* ---- budget ledger -------------------------------------------------
    impl,       \* which CheckAndDeduct is linked: "internal" or "part016"
    budgets,    \* budgets[m][id]: the in-memory Budget record of Manager m
    remote,     \* remote[id]: the counter budget:spent:{id}, in cents
    mu,         \* mu[m]: the caller holding Manager m's mutex, or NoOne
    cpc,        \* cpc[p]: where caller p is inside CheckAndDeduct
    carg,       \* carg[p]: the arguments of p's current call
    ret,        \* the last return of CheckAndDeduct: its arguments and result
    now,        \* the wall clock, time.Now()
    nCalls,     \* CheckAndDeduct calls started so far
    \* ---- observers of the ledger (history, not program state) -----------
    okCents,    \* okCents[id]: sum of ToCents(amount) over calls that returned ok
    landedBy,   \* landedBy[id]: the Managers whose increments reached remote[id]
    overlap,    \* overlap[p]: p's current call was in flight together with another
    overlapSum, \* overlapSum[id]: mills landed by calls that overlapped another call
    othersSince,\* othersSince[m][id]: cents landed by other Managers since m's last own
    slack,      \* slack[id]: othersSince of the Manager whose increment landed last
    allOk,      \* every CheckAndDeduct call that has returned so far returned ok
    \* ---- frequency controller: the remote store ---------------------------
    fstore,     \* fstore[key]: the counter freq:imp:{user}:{target}:{day} and its TTL
    fconfig,    \* fconfig[target]: the hash freq:config:{target}, or NoConfig
    chk,        \* the last return of CheckImpression, and whether the observed
                \* numbers of recorded impressions were below the limit then
    \* ---- observers of the frequency controller ----------------------------
    recordedOn, \* recordedOn[u][t][d]: successful RecordImpression calls on day d
    cfgret,     \* the kind of the last return of UpdateConfig, and whether all the
                \* fields passed to it were positive
    \* ---- bidding engine: one ProcessBid call at a time ---------------------
    req,        \* the BidRequest of the current call
    mpc,        \* where ProcessBid's own goroutine is
    ctxDone,    \* the caller's context is cancelled or past its deadline
    tpc,        \* tpc[i]: where the evaluation task of the i-th listed strategy is
    tcand,      \* tcand[i]: the BidCandidate task i has computed
    wg,         \* the WaitGroup counter
    closed,     \* resultChan is closed
    resultChan, \* the buffered channel of candidates
    candidates, \* the slice ProcessBid collects from the channel
    result,     \* what ProcessBid returned
    nReq,       \* ProcessBid calls started so far
    \* ---- observers of the engine -------------------------------------------
    strategies, \* the listing the repository returned to this call
    tnote,      \* tnote[i]: how task i ended
    tfreq,      \* tfreq[i]: what CheckImpression returned to task i
    arrival,    \* the candidates in the order they were received
    calls,      \* store and repository calls made by this ProcessBid call
    repo,       \* the repository's table of bid strategies
    before,     \* budget and frequency state when this call started
    \* ---- strategy repository: the bid_strategies table ---------------------
    table,      \* table[id]: the row of strategy id
    nextID,     \* the next auto-increment id
    upd,        \* upd[p]: caller p's UpdateBidStrategy call between its statements
    \* ---- observers of the repository ---------------------------------------
    created,    \* created[id]: the price and lock flag strategy id was created with
    last,       \* the last write applied to the table
    \* ---- budget administration: observers ----------------------------------
    stat,       \* the last return of GetBudgetStatus
    adm,        \* the last return of AddBudget or UpdateBudget
    \* ---- traffic handler: one HandleRequest call at a time -----------------
    hreq,       \* the traffic Request the handler parsed
    hpc,        \* where HandleRequest is
    hresp,      \* the HTTP status it answered with, 0 while it has not
    \* ---- observers of the handler ------------------------------------------
    hobs,       \* what this call saw: validation, targeting, the engine's call
                \* count and the budget and frequency state when it started
    \* ---- RTA ConfigManager --------------------------------------------------
    configs,    \* the map from task id to *TaskConfig
    rwmu,       \* the RWMutex: its writer, or NoOne, and its readers
    rpc,        \* rpc[c]: where caller c is inside its call
    rarg,       \* rarg[c]: the call c is making, and what ListConfigs has collected
    \* ---- observers of the ConfigManager -------------------------------------
    ref,        \* the map the calls define, taken in the order they got the lock
    rret,       \* the last return of GetConfig or ListConfigs, and what ref
                \* held when that call got the lock
    \* ---- the engine variant of part_013: two calls side by side ------------
    sreq,       \* sreq[r]: the request of call r
    sched,      \* what the stores answer in both calls, slot by slot
    sout,       \* sout[r]: what call r returned and what it left behind
    \* ---- concurrent ProcessBid calls of part_014 ---------------------------
    bpc,        \* bpc[b]: where call b is
    btask,      \* btask[b][i]: where call b's task for strategy i is
    bwin,       \* bwin[b]: the candidate call b ranked first
    \* ---- sliding-window DistributedController ------------------------------
    zset,       \* zset[k]: the sorted set of key k, its members and its TTL
    \* ---- observers of the DistributedController ----------------------------
    zlog,       \* zlog[k][t]: RecordFrequency calls for k that returned nil at time t
    zret,       \* the last return of CheckFrequency and what the log held then
    \* ---- Engine.ProcessBid of internal/bidding/engine.go: its goroutines ---
    gpc,        \* where the call is
    grun,       \* tasks that have not reached their send or returned
    gsend,      \* tasks at the statement resultChan <- candidate
    gchan,      \* candidates in resultChan's buffer
    gwg,        \* the WaitGroup counter
    gclosed,    \* whether resultChan has been closed
    ggot,       \* candidates the collector has received
    \* ---- observers of that call --------------------------------------------
    gobs        \* the ads the call started with, whether a send found the
                \* buffer full, how often the channel was closed

ledgerVars == <<impl, budgets, remote, mu, cpc, carg, ret, now, nCalls>>
ledgerObs  == <<okCents, landedBy, overlap, overlapSum, othersSince, slack, allOk>>
freqVars   == <<fstore, fconfig, chk, recordedOn, cfgret>>
engineVars == <<req, mpc, ctxDone, tpc, tcand, wg, closed, resultChan, candidates,
                result, nReq, strategies, tnote, tfreq, arrival, calls, before, repo>>
tableVars  == <<table, nextID, upd, created, last>>
adminVars  == <<stat, adm>>
\* what the ledger, the frequency controller and the engine never touch
handlerVars == <<hreq, hpc, hresp, hobs>>
\* the components added around the bidding core
rtaVars    == <<configs, rwmu, rpc, rarg, ref, rret>>
pairVars   == <<sreq, sched, sout>>
raceVars   == <<bpc, btask, bwin>>
windowVars == <<zset, zlog, zret>>
goVars     == <<gpc, grun, gsend, gchan, gwg, gclosed, ggot, gobs>>
later      == <<windowVars, goVars>>
rest       == <<pairVars, raceVars, later>>
beyond     == <<handlerVars, rtaVars, rest>>
aside      == <<tableVars, adminVars, beyond>>
vars == <<ledgerVars, ledgerObs, freqVars, engineVars, aside>>
outsideLedger == <<freqVars, engineVars, aside>>
outsideFreq   == <<impl, budgets, remote, mu, cpc, carg, ret, nCalls, ledgerObs,
                   engineVars, aside>>

-----------------------------------------------------------------------------
(* Bounds and domains *)

MaxCalls == 3
\* ProcessBid calls modelled, one after the other
MaxRequests == 2
MaxClock == 3
\* clock ticks in a calendar day
TicksPerDay == 2
\* RecordImpression calls modelled per user, target and day
MaxRecords == 10
\* rows ever inserted into bid_strategies
MaxRows == 1
\* AddBudget and UpdateBudget calls modelled
MaxAdminCalls == 2
\* GetBudgetStatus calls modelled
MaxStatusCalls == 2
\* RecordFrequency calls modelled per key
MaxWindowRecords == 3
\* candidate ads GetCandidateAds returns for one call
MaxAds == 11

Managers  == {"m1", "m2"}
Callers   == {"p1", "p2"}
BudgetIDs == {"s1"}
MissingID == "s9"
Amounts   == {5, 20}
NoOne     == "none"

\* int64(amount*100): mills to cents, truncating
MillsPerCent == 10
ToCents(amount) == amount \div MillsPerCent
\* float64(newSpent) / 100: cents back to the unit of Budget.Spent
FromCents(c) == c * MillsPerCent

-----------------------------------------------------------------------------
(* Budget ledger: internal/budget/manager.go and its variant part_016 *)

NewBudget(cap, status, start, end) ==
    [Amount |-> cap, Spent |-> 0, Status |-> status,
     StartTime |-> start, EndTime |-> end, UpdateTime |-> 0]

\* getBudgetKey: one remote counter per budget id
getBudgetKey(id) == id

\* m.mu.Lock() can be taken
LockFree_NoMutex(m) == TRUE
LockFree(m) == mu[m] = NoOne

\* The checks of CheckAndDeduct before the remote call, in the code's order.
LocalCheck_NoCap(m, id, amount) ==
    IF id \notin DOMAIN budgets[m] THEN "ErrBudgetNotFound"
    ELSE LET b == budgets[m][id] IN
         IF b.Status # "active" THEN "ErrBudgetInactive"
         ELSE IF now < b.StartTime \/ now > b.EndTime THEN "ErrBudgetExpired"
         ELSE "pass"
\* manager.go 110-124: the checks on the record that was found
RecordCheck(b, amount) ==
    IF b.Status # "active" THEN "ErrBudgetInactive"
    ELSE IF now < b.StartTime \/ now > b.EndTime THEN "ErrBudgetExpired"
    ELSE IF b.Spent + amount > b.Amount THEN "ErrBudgetExceeded"
    ELSE "pass"
LocalCheck(m, id, amount) ==
    IF id \notin DOMAIN budgets[m] THEN "ErrBudgetNotFound"
    ELSE RecordCheck(budgets[m][id], amount)

InFlight(p) == cpc[p] # "idle"
Others(p, id) == {q \in Callers \ {p} : InFlight(q) /\ carg[q].id = id}
IdleArg == [m |-> "m1", id |-> MissingID, amount |-> 0, newSpent |-> 0]

\* Callers are anonymous goroutines: a new call is given to the first idle one.
FirstIdle(p) == cpc[p] = "idle" /\ (p = "p2" => cpc["p1"] # "idle")

Return(p, ok, err) ==
    /\ ret' = [m |-> carg[p].m, id |-> carg[p].id, amount |-> carg[p].amount,
               ok |-> ok, err |-> err]
    /\ cpc' = [cpc EXCEPT ![p] = "idle"]
    /\ carg' = [carg EXCEPT ![p] = IdleArg]
    /\ mu' = [mu EXCEPT ![carg[p].m] = NoOne]
    /\ allOk' = (allOk /\ ok)

\* Entry of CheckAndDeduct (manager.go 101-124): lock, then the local checks
\* on the in-memory record; a rejected call unlocks and returns at once.
Begin(p, m, id, amount) ==
    /\ FirstIdle(p)
    /\ nCalls < MaxCalls
    /\ LockFree(m)
    /\ nCalls' = nCalls + 1
    /\ LET r == LocalCheck(m, id, amount) IN
       IF r = "pass"
       THEN /\ cpc' = [cpc EXCEPT ![p] = "incr"]
            /\ carg' = [carg EXCEPT ![p] = [m |-> m, id |-> id,
                                            amount |-> amount, newSpent |-> 0]]
            /\ mu' = [mu EXCEPT ![m] = p]
            /\ ret' = ret
            /\ allOk' = allOk
            /\ overlap' = [q \in Callers |->
                              IF q = p THEN Others(p, id) # {}
                              ELSE IF q \in Others(p, id) THEN TRUE
                              ELSE overlap[q]]
       ELSE /\ ret' = [m |-> m, id |-> id, amount |-> amount,
                       ok |-> FALSE, err |-> r]
            /\ allOk' = FALSE
            /\ UNCHANGED <<cpc, carg, mu, overlap>>
    /\ UNCHANGED <<impl, budgets, remote, now, okCents, landedBy, overlapSum,
                   othersSince, slack>>
    /\ UNCHANGED outsideLedger

\* Bookkeeping of one increment that reached the remote counter.
Landed(m, id, cents) ==
    /\ landedBy' = [landedBy EXCEPT ![id] = @ \cup {m}]
    /\ slack' = [slack EXCEPT ![id] = othersSince[m][id]]
    /\ othersSince' = [x \in Managers |->
                          [othersSince[x] EXCEPT ![id] =
                              IF x = m THEN 0 ELSE @ + cents]]

\* Bookkeeping of a call that returns ok = true.
Acked(p) ==
    /\ okCents' = [okCents EXCEPT ![carg[p].id] = @ + ToCents(carg[p].amount)]
    /\ overlapSum' = [overlapSum EXCEPT ![carg[p].id] =
                         IF overlap[p] THEN @ + carg[p].amount ELSE @]
    /\ overlap' = [overlap EXCEPT ![p] = FALSE]

\* The in-memory record after a successful deduction (manager.go 134-136)
Committed_Stale(b, newSpent) == [b EXCEPT !.UpdateTime = now]
Committed(b, newSpent) ==
    [b EXCEPT !.Spent = FromCents(newSpent), !.UpdateTime = now]

\* manager.go 126-136: one IncrBy; its value becomes the in-memory spent.
Deduct_NoIncrement(m, id, amount) ==
    /\ remote' = remote
    /\ budgets' = [budgets EXCEPT ![m][id] =
                      Committed(@, remote[getBudgetKey(id)] + ToCents(amount))]
Deduct(m, id, amount) ==
    LET newSpent == remote[getBudgetKey(id)] + ToCents(amount)
    IN /\ remote' = [remote EXCEPT ![getBudgetKey(id)] = newSpent]
       /\ budgets' = [budgets EXCEPT ![m][id] = Committed(@, newSpent)]

\* manager.go 126-143: the increment lands and the call returns (true, nil).
IncrOk(p) ==
    /\ cpc[p] = "incr"
    /\ Deduct(carg[p].m, carg[p].id, carg[p].amount)
    /\ Landed(carg[p].m, carg[p].id, ToCents(carg[p].amount))
    /\ Acked(p)
    /\ Return(p, TRUE, "nil")
    /\ UNCHANGED <<impl, now, nCalls>>
    /\ UNCHANGED outsideLedger

\* manager.go 129-132: IncrBy failed and added nothing; return (false, err).
IncrErr_Stamps(p) ==
    /\ cpc[p] = "incr"
    /\ Return(p, FALSE, "ErrRedis")
    /\ overlap' = [overlap EXCEPT ![p] = FALSE]
    /\ budgets' = [budgets EXCEPT ![carg[p].m][carg[p].id].UpdateTime = now + 1]
    /\ UNCHANGED <<impl, remote, now, nCalls, okCents, landedBy,
                   overlapSum, othersSince, slack>>
    /\ UNCHANGED outsideLedger
IncrErr(p) ==
    /\ cpc[p] = "incr"
    /\ Return(p, FALSE, "ErrRedis")
    /\ overlap' = [overlap EXCEPT ![p] = FALSE]
    /\ UNCHANGED <<impl, budgets, remote, now, nCalls, okCents, landedBy,
                   overlapSum, othersSince, slack>>
    /\ UNCHANGED outsideLedger

\* part_016 155: the first IncrBy.  Only its value (.Val()) is kept, as
\* newSpent; its error is not looked at.
IncrFirst(p) ==
    /\ cpc[p] = "incr"
    /\ LET m == carg[p].m
           id == carg[p].id
           cents == ToCents(carg[p].amount)
           newSpent == remote[getBudgetKey(id)] + cents
       IN /\ remote' = [remote EXCEPT ![getBudgetKey(id)] = newSpent]
          /\ carg' = [carg EXCEPT ![p].newSpent = newSpent]
          /\ Landed(m, id, cents)
    /\ cpc' = [cpc EXCEPT ![p] = "incr2"]
    /\ UNCHANGED <<impl, budgets, mu, ret, now, nCalls, okCents, overlap,
                   overlapSum, allOk>>
    /\ UNCHANGED outsideLedger

\* part_016 155: the first IncrBy failed; .Val() is 0 and the call goes on.
IncrFirstErr(p) ==
    /\ cpc[p] = "incr"
    /\ cpc' = [cpc EXCEPT ![p] = "incr2"]
    /\ UNCHANGED <<impl, budgets, remote, mu, carg, ret, now, nCalls, ledgerObs>>
    /\ UNCHANGED outsideLedger

\* part_016 156-169: the second IncrBy, called for its error; when it
\* succeeds the in-memory spent becomes the value of the first.
IncrSecond(p) ==
    /\ cpc[p] = "incr2"
    /\ LET m == carg[p].m
           id == carg[p].id
           cents == ToCents(carg[p].amount)
       IN /\ remote' = [remote EXCEPT ![getBudgetKey(id)] = @ + cents]
          /\ budgets' = [budgets EXCEPT ![m][id] = Committed(@, carg[p].newSpent)]
          /\ Landed(m, id, cents)
    /\ Acked(p)
    /\ Return(p, TRUE, "nil")
    /\ UNCHANGED <<impl, now, nCalls>>
    /\ UNCHANGED outsideLedger

\* part_016 156-159: the second IncrBy failed; return (false, err).
IncrSecondErr(p) ==
    /\ cpc[p] = "incr2"
    /\ Return(p, FALSE, "ErrRedis")
    /\ overlap' = [overlap EXCEPT ![p] = FALSE]
    /\ UNCHANGED <<impl, budgets, remote, now, nCalls, okCents, landedBy,
                   overlapSum, othersSince, slack>>
    /\ UNCHANGED outsideLedger

\* time passes
Tick ==
    /\ now < MaxClock
    /\ now' = now + 1
    /\ UNCHANGED <<impl, budgets, remote, mu, cpc, carg, ret, nCalls, ledgerObs>>
    /\ UNCHANGED <<fstore, fconfig, chk, recordedOn, cfgret, engineVars, aside>>

LedgerInit(which, statuses) ==
    /\ impl = which
    /\ \E status \in statuses :
          budgets = [m \in Managers |->
                        [id \in BudgetIDs |-> NewBudget(40, status, 1, 2)]]
    /\ remote = [id \in BudgetIDs |-> 0]
    /\ mu = [m \in Managers |-> NoOne]
    /\ cpc = [p \in Callers |-> "idle"]
    /\ carg = [p \in Callers |-> IdleArg]
    /\ ret = [m |-> "m1", id |-> MissingID, amount |-> 0, ok |-> FALSE,
              err |-> "none"]
    /\ now = 0
    /\ nCalls = 0
    /\ okCents = [id \in BudgetIDs |-> 0]
    /\ landedBy = [id \in BudgetIDs |-> {}]
    /\ overlap = [p \in Callers |-> FALSE]
    /\ overlapSum = [id \in BudgetIDs |-> 0]
    /\ othersSince = [m \in Managers |-> [id \in BudgetIDs |-> 0]]
    /\ slack = [id \in BudgetIDs |-> 0]
    /\ allOk = TRUE

-----------------------------------------------------------------------------
(* Frequency controller: internal/frequency/controller.go *)

Users   == {"u1"}
Targets == {"s1", "s2"}
Days    == 0 .. (MaxClock \div TicksPerDay)
NoConfig == [set |-> FALSE]
NoTTL    == 0 - 1

\* time.Now().Format("20060102"): the calendar day of a clock value
DayOf(t) == t \div TicksPerDay
\* 24*time.Hour, in ticks
Hours24 == TicksPerDay

\* freq:imp:{user}:{target}:{day}
impKey(u, t, d) == <<u, t, d>>

\* A key of the store is there while it holds a value and its TTL has not run out.
Alive(k) == fstore[k].n > 0 /\ (fstore[k].exp = NoTTL \/ now < fstore[k].exp)

\* Get(key).Int(): the value, 0 with redis.Nil for a key that is not there
StoreGet(k) == IF Alive(k) THEN fstore[k].n ELSE 0

\* the defaults of getConfig (controller.go 170-175)
DefaultImpressionLimit == 10
DefaultClickLimit == 3
DefaultQPS == 100
DefaultConfig ==
    [ImpressionLimit |-> DefaultImpressionLimit, ClickLimit |-> DefaultClickLimit,
     TimeWindow |-> Hours24, QPS |-> DefaultQPS]

\* getConfig (controller.go 158-190): the stored hash when it has fields,
\* the defaults when HGetAll returns none.
getConfig(t) ==
    IF ~fconfig[t].set THEN DefaultConfig
    ELSE [ImpressionLimit |-> fconfig[t].impression_limit,
          ClickLimit |-> fconfig[t].click_limit,
          TimeWindow |-> fconfig[t].time_window,
          QPS |-> fconfig[t].qps]

\* validateConfig (controller.go 192-206)
validateConfig_NoQPS(c) ==
    IF c.ImpressionLimit <= 0 THEN "ErrImpressionLimit"
    ELSE IF c.ClickLimit <= 0 THEN "ErrClickLimit"
    ELSE IF c.TimeWindow <= 0 THEN "ErrTimeWindow"
    ELSE "nil"
validateConfig(c) ==
    IF c.ImpressionLimit <= 0 THEN "ErrImpressionLimit"
    ELSE IF c.ClickLimit <= 0 THEN "ErrClickLimit"
    ELSE IF c.TimeWindow <= 0 THEN "ErrTimeWindow"
    ELSE IF c.QPS <= 0 THEN "ErrQPS"
    ELSE "nil"

\* the errors of validateConfig are of one kind: the configuration is invalid
InvalidConfig == "ErrInvalidConfig"
ErrorKind(err) ==
    IF err \in {"ErrImpressionLimit", "ErrClickLimit", "ErrTimeWindow", "ErrQPS"}
    THEN InvalidConfig ELSE err

\* controller.go 56-62: the comparison of the counter with the limit
Allowed_OffByOne(count, limit) == ~(count > limit)
Allowed(count, limit) == ~(count >= limit)

\* What CheckImpression returns when the store answers (controller.go 40-63)
CheckImpressionValue(u, t) ==
    Allowed(StoreGet(impKey(u, t, DayOf(now))), getConfig(t).ImpressionLimit)

\* Observers: impressions recorded for (u, t) whose counter has not expired,
\* and impressions recorded for (u, t) on the current calendar day.
RecordedUnexpired(u, t) ==
    LET alive == {d \in Days : Alive(impKey(u, t, d))}
        Sum[S \in SUBSET Days] ==
            IF S = {} THEN 0
            ELSE LET d == CHOOSE x \in S : TRUE
                 IN recordedOn[u][t][d] + Sum[S \ {d}]
    IN Sum[alive]
RecordedToday(u, t) == recordedOn[u][t][DayOf(now)]
\* the limit in force: the override when one was stored, the default otherwise
LimitInForce(t) ==
    IF fconfig[t].set THEN fconfig[t].impression_limit ELSE DefaultImpressionLimit

\* CheckImpression (controller.go 40-63).  HGetAll and Get are two reads; a
\* failure of either returns (false, err).
CheckImpression(u, t) ==
    /\ \E storeErr \in BOOLEAN :
          chk' = [user |-> u, target |-> t,
                  err |-> IF storeErr THEN "ErrRedis" ELSE "nil",
                  allowed |-> IF storeErr THEN FALSE ELSE CheckImpressionValue(u, t),
                  belowUnexpired |-> RecordedUnexpired(u, t) < LimitInForce(t),
                  belowToday |-> RecordedToday(u, t) < LimitInForce(t)]
    /\ UNCHANGED <<fstore, fconfig, recordedOn, cfgret, now>>
    /\ UNCHANGED outsideFreq

\* The store after Incr(key) and Expire(key, 24h).  The result of Expire is
\* not looked at: when it is lost the key keeps the TTL it had.
AfterRecord(k, expireLands) ==
    [fstore EXCEPT ![k] =
        [n |-> StoreGet(k) + 1,
         exp |-> IF expireLands THEN now + Hours24
                 ELSE IF Alive(k) THEN fstore[k].exp ELSE NoTTL]]

\* RecordImpression (controller.go 65-80)
RecordImpression(u, t) ==
    /\ recordedOn[u][t][DayOf(now)] < MaxRecords
    /\ \E expireLands \in BOOLEAN :
          fstore' = AfterRecord(impKey(u, t, DayOf(now)), expireLands)
    /\ recordedOn' = [recordedOn EXCEPT ![u][t][DayOf(now)] = @ + 1]
    /\ UNCHANGED <<fconfig, chk, cfgret, now>>
    /\ UNCHANGED outsideFreq

ConfigInputs ==
    [ImpressionLimit : {0, 1, 2}, ClickLimit : {0, 3}, TimeWindow : {0, 1},
     QPS : {0, 100}]

\* the Config a stored hash is read back as (controller.go 178-189)
StoredConfig(c) ==
    [set |-> TRUE, impression_limit |-> c.ImpressionLimit,
     click_limit |-> c.ClickLimit, time_window |-> c.TimeWindow, qps |-> c.QPS]

\* UpdateConfig (controller.go 125-149): validate, then HMSet the four fields.
UpdateConfig(t, c) ==
    /\ LET verr == validateConfig(c)
           positive == /\ c.ImpressionLimit > 0 /\ c.ClickLimit > 0
                       /\ c.TimeWindow > 0 /\ c.QPS > 0
       IN
       IF verr = "nil"
       THEN \E storeErr \in BOOLEAN :
               /\ fconfig' = IF storeErr THEN fconfig
                             ELSE [fconfig EXCEPT ![t] = StoredConfig(c)]
               /\ cfgret' = [target |-> t,
                             positive |-> positive,
                             err |-> IF storeErr THEN "ErrRedis" ELSE "nil"]
       ELSE /\ fconfig' = fconfig
            /\ cfgret' = [target |-> t,
                          positive |-> positive, err |-> ErrorKind(verr)]
    /\ UNCHANGED <<fstore, chk, recordedOn, now>>
    /\ UNCHANGED outsideFreq

NoConfigCall == [target |-> "", positive |-> FALSE, err |-> "none"]

NoCheck == [user |-> "", target |-> "", err |-> "none", allowed |-> FALSE,
            belowUnexpired |-> FALSE, belowToday |-> FALSE]

FreqStoreInit ==
    /\ fstore = [k \in Users \X Targets \X Days |-> [n |-> 0, exp |-> NoTTL]]
    /\ fconfig = [t \in Targets |-> NoConfig]
    /\ chk = NoCheck
    /\ recordedOn = [u \in Users |-> [t \in Targets |-> [d \in Days |-> 0]]]
    /\ cfgret = NoConfigCall

-----------------------------------------------------------------------------
(* Bidding engine: Engine.ProcessBid of part_014 *)

\* Billing types are strings; they are compared with strings.Contains.
CPM  == <<"C", "P", "M">>
CPC  == <<"C", "P", "C">>
Both == CPC \o <<",">> \o CPM
\* strings.Contains(s, substr)
Contains(str, substr) ==
    \E i \in 0 .. (Len(str) - Len(substr)) :
        SubSeq(str, i + 1, i + Len(substr)) = substr

StrategyIDs == <<"s1", "s2">>
\* what a listed strategy can look like: billing type, price, status
Shapes ==
    {[BidType |-> CPM, Price |-> 5000, Status |-> 1],
     [BidType |-> CPM, Price |-> 7000, Status |-> 1],
     [BidType |-> CPC, Price |-> 300,  Status |-> 1],
     [BidType |-> CPM, Price |-> 5000, Status |-> 0],
     [BidType |-> CPM, Price |-> 20000, Status |-> 1],
     [BidType |-> CPM, Price |-> 2,    Status |-> 1]}
Strategy(id, shape) ==
    [ID |-> id, BidType |-> shape.BidType, Price |-> shape.Price,
     Status |-> shape.Status]
\* the strategy tables the repository can hold
Catalogs ==
    {<<>>} \cup
    {<<Strategy(StrategyIDs[1], a), Strategy(StrategyIDs[2], b)>> :
        a \in Shapes, b \in Shapes}

Slot(bidType) == [BidType |-> bidType, MinPrice |-> 1000, MaxPrice |-> 10000]
Requests ==
    {[UserID |-> "",   AdSlots |-> <<Slot(CPM)>>],
     [UserID |-> "u1", AdSlots |-> <<>>],
     [UserID |-> "u1", AdSlots |-> <<Slot(CPM)>>],
     [UserID |-> "u1", AdSlots |-> <<Slot(Both), Slot(CPM)>>]}

\* the Manager the engine is built with
EngineManager == "m1"
\* a major unit is 100 cents
MillsPerUnit == 100 * MillsPerCent
\* the cap of each strategy's budget: 10.0 for the first, 5.0 for the others
EngineCap(id) == IF id = StrategyIDs[1] THEN 10 * MillsPerUnit ELSE 5 * MillsPerUnit

\* part_014 120-123: the request is refused before anything else is done
InvalidRequest_UserOnly(r) == r.UserID = ""
InvalidRequest(r) == r.UserID = "" \/ Len(r.AdSlots) = 0

\* predictCTR (part_014 264-269): the constant 0.01, in hundredths
predictCTR == 1
\* calculateFinalBidPrice (part_014 250-262), in mills
calculateFinalBidPrice_Unscaled(s, ctr) ==
    IF s.BidType = CPC THEN (s.Price * MillsPerUnit * ctr) \div 100
    ELSE IF s.BidType = CPM THEN s.Price * MillsPerUnit
    ELSE 0
calculateFinalBidPrice(s, ctr) ==
    IF s.BidType = CPC THEN (s.Price * MillsPerUnit * ctr) \div 100
    ELSE IF s.BidType = CPM THEN (s.Price * MillsPerUnit) \div 1000
    ELSE 0

\* part_014 143-150: the strategies a task is started for
Eligible_AnyStatus(s, slot) == Contains(slot.BidType, s.BidType)
Eligible(s, slot) == s.Status = 1 /\ Contains(slot.BidType, s.BidType)

\* part_014 188: the price is outside the slot's range
OutOfRange_Unchecked(bidPrice, slot) == FALSE
OutOfRange(bidPrice, slot) ==
    bidPrice < slot.MinPrice \/ bidPrice > slot.MaxPrice

Tasks == 1 .. Len(StrategyIDs)
NoCand == [ID |-> "", BidPrice |-> 0, CTR |-> 0]
NoCalls == [list |-> 0, check |-> 0, deduct |-> 0, record |-> 0, target |-> ""]
\* part_014 242: fmt.Sprintf("%d", winner.Strategy.ID) applied to a string
\* ID (part_015 70): the verb does not fit a string, so the rendering is the
\* bad-verb form %!d(string=<id>), kept here as its three pieces
Sprintf_d(id) == <<"%!d(string=", id, ")">>

\* the text of an ID on its own, in the same pieces
Text(id) == <<id>>

NoResult == [err |-> "none", AdID |-> <<>>, BidPrice |-> 0]
Snapshot == [remote |-> remote, budgets |-> budgets, fstore |-> fstore]

\* sort.Slice's comparison (part_014 217-219): higher bid price first
Less_Ascending(a, b) == a.BidPrice < b.BidPrice
Less(a, b) == a.BidPrice > b.BidPrice

Reorderings(n) ==
    {f \in [1 .. n -> 1 .. n] : \A i, j \in 1 .. n : i # j => f[i] # f[j]}
\* sort.Slice(candidates, less): some reordering in which no element is
\* less than one before it.  sort.Slice is not stable: elements that tie
\* may come out in any order.
Sorted(seq) ==
    {[i \in 1 .. Len(seq) |-> seq[f[i]]] : f \in
        {g \in Reorderings(Len(seq)) :
            \A i, j \in 1 .. Len(seq) : i < j => ~Less(seq[g[j]], seq[g[i]])}}

\* part_014 221-224: nothing was collected
NoAvailableAds_ShortOfTwo(cands) == Len(cands) < 2
NoAvailableAds(cands) == Len(cands) = 0

\* Entry of ProcessBid (part_014 114-123)
ProcessBid(r) ==
    /\ mpc \in {"idle", "done"}
    /\ nReq < MaxRequests
    /\ nReq' = nReq + 1
    /\ req' = r
    /\ ctxDone' = FALSE
    /\ tpc' = [i \in Tasks |-> "none"]
    /\ tcand' = [i \in Tasks |-> NoCand]
    /\ tnote' = [i \in Tasks |-> "none"]
    /\ tfreq' = [i \in Tasks |-> "none"]
    /\ wg' = 0
    /\ closed' = FALSE
    /\ resultChan' = <<>>
    /\ candidates' = <<>>
    /\ arrival' = <<>>
    /\ strategies' = <<>>
    /\ calls' = NoCalls
    /\ before' = Snapshot
    /\ IF InvalidRequest(r)
       THEN mpc' = "done" /\ result' = [NoResult EXCEPT !.err = "ErrInvalidBidRequest"]
       ELSE mpc' = "list" /\ result' = NoResult
    /\ UNCHANGED <<repo, ledgerVars, ledgerObs, freqVars, aside>>

\* part_014 125-132: the repository fails, its error is returned
ListFails_AfterCheck ==
    /\ mpc = "list"
    /\ mpc' = "done"
    /\ result' = [NoResult EXCEPT !.err = "ErrRepository"]
    /\ calls' = [calls EXCEPT !.list = @ + 1, !.check = @ + 1]
    /\ UNCHANGED <<req, ctxDone, tpc, tcand, wg, closed, resultChan, candidates,
                   nReq, repo, strategies, tnote, tfreq, arrival, before>>
    /\ UNCHANGED <<ledgerVars, ledgerObs, freqVars, aside>>
ListFails ==
    /\ mpc = "list"
    /\ mpc' = "done"
    /\ result' = [NoResult EXCEPT !.err = "ErrRepository"]
    /\ calls' = [calls EXCEPT !.list = @ + 1]
    /\ UNCHANGED <<req, ctxDone, tpc, tcand, wg, closed, resultChan, candidates,
                   nReq, repo, strategies, tnote, tfreq, arrival, before>>
    /\ UNCHANGED <<ledgerVars, ledgerObs, freqVars, aside>>

\* part_014 125-210: the listing arrives; the first slot is taken (an index
\* out of range when there is none) and one task is started per eligible
\* strategy.
ListAndSpawn ==
    /\ mpc = "list"
    /\ calls' = [calls EXCEPT !.list = @ + 1]
    /\ strategies' = repo
    /\ IF Len(req.AdSlots) = 0
       THEN /\ mpc' = "done"
            /\ result' = [NoResult EXCEPT !.err = "panic"]
            /\ UNCHANGED <<tpc, wg>>
       ELSE LET started == {i \in 1 .. Len(repo) : Eligible(repo[i], req.AdSlots[1])}
            IN /\ tpc' = [i \in Tasks |-> IF i \in started THEN "freq" ELSE "none"]
               /\ wg' = Cardinality(started)
               /\ mpc' = "collect"
               /\ result' = result
    /\ UNCHANGED <<req, ctxDone, tcand, closed, resultChan, candidates, nReq, repo,
                   tnote, tfreq, arrival, before>>
    /\ UNCHANGED <<ledgerVars, ledgerObs, freqVars, aside>>

\* a task ends without a candidate: return, then the deferred wg.Done()
TaskEnds(i, why) ==
    /\ tpc' = [tpc EXCEPT ![i] = "done"]
    /\ tnote' = [tnote EXCEPT ![i] = why]
    /\ wg' = wg - 1

\* part_014 167-168: what the task makes of CheckImpression's (ok, err)
FreqPasses_FailOpen(ok, err) == ok \/ err # "nil"
FreqPasses(ok, err) == ~(err # "nil" \/ ~ok)

\* part_014 165-190: frequency check, CTR, price and price range of task i.
\* On a store error CheckImpression returns (false, err).
TaskFreq(i) ==
    /\ tpc[i] = "freq"
    /\ calls' = [calls EXCEPT !.check = @ + 1]
    /\ LET s == strategies[i]
           slot == req.AdSlots[1]
           ctr == predictCTR
           bidPrice == calculateFinalBidPrice(s, ctr)
       IN \E err \in {"nil", "ErrStore"} :
            LET ok == IF err = "nil" THEN CheckImpressionValue(req.UserID, s.ID)
                      ELSE FALSE
            IN
            /\ tfreq' = [tfreq EXCEPT ![i] =
                            IF err # "nil" THEN "err"
                            ELSE IF ok THEN "ok" ELSE "denied"]
            /\ IF ~FreqPasses(ok, err)
               THEN /\ TaskEnds(i, IF err # "nil" THEN "freqErr" ELSE "freqDenied")
                    /\ tcand' = tcand
               ELSE IF ctr <= 0 \/ bidPrice <= 0
                    THEN TaskEnds(i, "noPrice") /\ tcand' = tcand
               ELSE IF OutOfRange(bidPrice, slot)
                    THEN TaskEnds(i, "outOfRange") /\ tcand' = tcand
               ELSE /\ tpc' = [tpc EXCEPT ![i] = "budget"]
                    /\ tcand' = [tcand EXCEPT ![i] =
                                    [ID |-> s.ID, BidPrice |-> bidPrice, CTR |-> ctr]]
                    /\ UNCHANGED <<tnote, wg>>
    /\ UNCHANGED <<req, mpc, ctxDone, closed, resultChan, candidates, result, nReq, repo,
                   strategies, arrival, before>>
    /\ UNCHANGED <<ledgerVars, ledgerObs, freqVars, aside>>

\* part_014 192-196: CheckAndDeduct of task i, under the Manager's mutex
TaskBudget(i) ==
    /\ tpc[i] = "budget"
    /\ calls' = [calls EXCEPT !.deduct = @ + 1]
    /\ LET id == tcand[i].ID
           amount == tcand[i].BidPrice
       IN IF LocalCheck(EngineManager, id, amount) # "pass"
          THEN /\ TaskEnds(i, "budgetRefused")
               /\ UNCHANGED <<remote, budgets>>
          ELSE \E storeErr \in BOOLEAN :
                 IF storeErr
                 THEN /\ TaskEnds(i, "budgetErr")
                      /\ UNCHANGED <<remote, budgets>>
                 ELSE /\ Deduct(EngineManager, id, amount)
                      /\ tpc' = [tpc EXCEPT ![i] = "send"]
                      /\ UNCHANGED <<tnote, wg>>
    /\ UNCHANGED <<req, mpc, ctxDone, tcand, closed, resultChan, candidates, result,
                   nReq, repo, strategies, tfreq, arrival, before>>
    /\ UNCHANGED <<impl, mu, cpc, carg, ret, now, nCalls, ledgerObs, freqVars, aside>>

\* part_014 198-203: the candidate goes into the channel, whose buffer holds
\* one candidate per listed strategy; the task returns and wg.Done() runs.
TaskSend(i) ==
    /\ tpc[i] = "send"
    /\ resultChan' = Append(resultChan, tcand[i])
    /\ TaskEnds(i, "sent")
    /\ UNCHANGED <<req, mpc, ctxDone, tcand, closed, candidates, result, nReq, repo,
                   strategies, tfreq, arrival, calls, before>>
    /\ UNCHANGED <<ledgerVars, ledgerObs, freqVars, aside>>

\* part_014 154-163: the WaitGroup after a panic in a task.  recover() runs
\* first, then the deferred wg.Done().
WgAfterPanic_NoDone(n) == n
WgAfterPanic(n) == n - 1

\* a fault inside task i, in one of the calls it makes
TaskPanic(i) ==
    /\ tpc[i] \in {"freq", "budget"}
    /\ tpc' = [tpc EXCEPT ![i] = "done"]
    /\ tnote' = [tnote EXCEPT ![i] = "panic"]
    /\ wg' = WgAfterPanic(wg)
    /\ UNCHANGED <<req, mpc, ctxDone, tcand, closed, resultChan, candidates, result,
                   nReq, repo, strategies, tfreq, arrival, calls, before>>
    /\ UNCHANGED <<ledgerVars, ledgerObs, freqVars, aside>>

\* part_014 207-210: wg.Wait() returns, the channel is closed
Closer ==
    /\ mpc = "collect"
    /\ wg = 0
    /\ ~closed
    /\ closed' = TRUE
    /\ UNCHANGED <<req, mpc, ctxDone, tpc, tcand, wg, resultChan, candidates, result,
                   nReq, repo, strategies, tnote, tfreq, arrival, calls, before>>
    /\ UNCHANGED <<ledgerVars, ledgerObs, freqVars, aside>>

\* part_014 214-216: one turn of the loop over the channel
Receive ==
    /\ mpc = "collect"
    /\ resultChan # <<>>
    /\ candidates' = Append(candidates, Head(resultChan))
    /\ arrival' = Append(arrival, Head(resultChan))
    /\ resultChan' = Tail(resultChan)
    /\ UNCHANGED <<req, mpc, ctxDone, tpc, tcand, wg, closed, result, nReq, repo,
                   strategies, tnote, tfreq, calls, before>>
    /\ UNCHANGED <<ledgerVars, ledgerObs, freqVars, aside>>

\* part_014 214-227: the loop ends when the channel is closed and drained;
\* the candidates are sorted and the first one wins.
Rank ==
    /\ mpc = "collect"
    /\ closed
    /\ resultChan = <<>>
    /\ \E sorted \in Sorted(candidates) :
          /\ candidates' = sorted
          /\ IF NoAvailableAds(sorted)
             THEN /\ mpc' = "done"
                  /\ result' = [NoResult EXCEPT !.err = "ErrNoAvailableAds"]
             ELSE /\ mpc' = "record"
                  /\ result' = result
    /\ UNCHANGED <<req, ctxDone, tpc, tcand, wg, closed, resultChan, nReq, repo,
                   strategies, tnote, tfreq, arrival, calls, before>>
    /\ UNCHANGED <<ledgerVars, ledgerObs, freqVars, aside>>

\* part_014 226-235: RecordImpression for the winner, called inside
\* ProcessBid; its error is only logged.
RecordWinner ==
    /\ mpc = "record"
    /\ LET winner == candidates[1]
           k == impKey(req.UserID, winner.ID, DayOf(now))
       IN /\ \E storeErr \in BOOLEAN :
                IF storeErr
                THEN UNCHANGED <<fstore, recordedOn>>
                ELSE /\ fstore' = AfterRecord(k, TRUE)
                     /\ recordedOn' = [recordedOn EXCEPT
                            ![req.UserID][winner.ID][DayOf(now)] = @ + 1]
          /\ calls' = [calls EXCEPT !.record = @ + 1, !.target = winner.ID]
    /\ mpc' = "respond"
    /\ UNCHANGED <<req, ctxDone, tpc, tcand, wg, closed, resultChan, candidates,
                   result, nReq, repo, strategies, tnote, tfreq, arrival, before>>
    /\ UNCHANGED <<ledgerVars, ledgerObs, fconfig, chk, cfgret, aside>>

\* part_014 237-247: the response is built from the winner and returned
Respond ==
    /\ mpc = "respond"
    /\ result' = [err |-> "nil", AdID |-> Sprintf_d(candidates[1].ID),
                  BidPrice |-> candidates[1].BidPrice]
    /\ mpc' = "done"
    /\ UNCHANGED <<req, ctxDone, tpc, tcand, wg, closed, resultChan, candidates,
                   nReq, repo, strategies, tnote, tfreq, arrival, calls, before>>
    /\ UNCHANGED <<ledgerVars, ledgerObs, freqVars, aside>>

\* the caller's deadline passes, or the caller cancels, while ProcessBid
\* is collecting
Cancel ==
    /\ mpc = "collect"
    /\ ~ctxDone
    /\ ctxDone' = TRUE
    /\ UNCHANGED <<req, mpc, tpc, tcand, wg, closed, resultChan, candidates, result,
                   nReq, repo, strategies, tnote, tfreq, arrival, calls, before>>
    /\ UNCHANGED <<ledgerVars, ledgerObs, freqVars, aside>>

EngineIdle ==
    /\ req = [UserID |-> "", AdSlots |-> <<>>]
    /\ mpc = "idle"
    /\ ctxDone = FALSE
    /\ tpc = [i \in Tasks |-> "none"]
    /\ tcand = [i \in Tasks |-> NoCand]
    /\ tnote = [i \in Tasks |-> "none"]
    /\ tfreq = [i \in Tasks |-> "none"]
    /\ wg = 0
    /\ closed = FALSE
    /\ resultChan = <<>>
    /\ candidates = <<>>
    /\ arrival = <<>>
    /\ strategies = <<>>
    /\ result = NoResult
    /\ nReq = 0
    /\ calls = NoCalls
    /\ before = [remote |-> <<>>, budgets |-> <<>>, fstore |-> <<>>]

\* outside the engine's specification the repository is empty
NoEngine == EngineIdle /\ repo = <<>>

-----------------------------------------------------------------------------
(* Strategy repository: MySQLRepository of internal/bidding/repository.go *)

\* the strategies callers pass to CreateBidStrategy and UpdateBidStrategy
StrategyInputs ==
    {[name |-> "a", price |-> 100, daily_budget |-> 10, status |-> 1],
     [name |-> "b", price |-> 200, daily_budget |-> 20, status |-> 0]}
RowIDs == 1 .. MaxRows
NoUpdate == [pc |-> "idle", id |-> 0, arg |-> [name |-> ""], locked |-> 0]
NoWrite == [kind |-> "none", id |-> 0, name |-> "", price |-> 0,
            daily_budget |-> 0, status |-> 0]

\* the row INSERTed by CreateBidStrategy (repository.go 137-149)
InsertedRow(s, locked) ==
    [name |-> s.name, price |-> s.price, daily_budget |-> s.daily_budget,
     status |-> s.status, is_price_locked |-> locked]

\* the row after the UPDATE of UpdateBidStrategy (repository.go 179-212):
\* without the price when the lock flag read before was 1
UpdatedRow_PriceToo(row, s, isPriceLocked) ==
    [row EXCEPT !.name = s.name, !.price = s.price,
                !.daily_budget = s.daily_budget, !.status = s.status]
UpdatedRow(row, s, isPriceLocked) ==
    IF isPriceLocked = 1
    THEN [row EXCEPT !.name = s.name, !.daily_budget = s.daily_budget,
                     !.status = s.status]
    ELSE [row EXCEPT !.name = s.name, !.price = s.price,
                     !.daily_budget = s.daily_budget, !.status = s.status]

\* CreateBidStrategy (repository.go 136-168): the row gets the next id
CreateBidStrategy(s, locked) ==
    /\ nextID \in RowIDs
    /\ table' = [i \in DOMAIN table \cup {nextID} |->
                    IF i = nextID THEN InsertedRow(s, locked) ELSE table[i]]
    /\ created' = [i \in DOMAIN created \cup {nextID} |->
                      IF i = nextID THEN [price |-> s.price, locked |-> locked]
                      ELSE created[i]]
    /\ nextID' = nextID + 1
    /\ last' = [kind |-> "create", id |-> nextID, name |-> s.name,
                price |-> s.price, daily_budget |-> s.daily_budget,
                status |-> s.status]
    /\ UNCHANGED upd
    /\ UNCHANGED <<ledgerVars, ledgerObs, freqVars, engineVars, adminVars, beyond>>

\* UpdateBidStrategy, first statement (repository.go 173-177): the lock flag
\* of the row is read.  For an id without a row GetContext fails and the
\* call returns its error with nothing changed.
UpdateSelect(p, id, s) ==
    /\ upd[p].pc = "idle"
    /\ id \in DOMAIN table
    /\ upd' = [upd EXCEPT ![p] = [pc |-> "exec", id |-> id, arg |-> s,
                                  locked |-> table[id].is_price_locked]]
    /\ UNCHANGED <<table, nextID, created, last>>
    /\ UNCHANGED <<ledgerVars, ledgerObs, freqVars, engineVars, adminVars, beyond>>

\* UpdateBidStrategy, second statement (repository.go 179-213): the UPDATE;
\* it changes no row when the row has been deleted meanwhile.
UpdateExec(p) ==
    /\ upd[p].pc = "exec"
    /\ LET id == upd[p].id
           s == upd[p].arg
       IN IF id \in DOMAIN table
          THEN /\ table' = [table EXCEPT ![id] = UpdatedRow(@, s, upd[p].locked)]
               /\ last' = [kind |-> "update", id |-> id, name |-> s.name,
                           price |-> s.price, daily_budget |-> s.daily_budget,
                           status |-> s.status]
          ELSE UNCHANGED <<table, last>>
    /\ upd' = [upd EXCEPT ![p] = NoUpdate]
    /\ UNCHANGED <<nextID, created>>
    /\ UNCHANGED <<ledgerVars, ledgerObs, freqVars, engineVars, adminVars, beyond>>

\* repository.go 189-213: the UPDATE fails; its error is returned
UpdateExecErr(p) ==
    /\ upd[p].pc = "exec"
    /\ upd' = [upd EXCEPT ![p] = NoUpdate]
    /\ UNCHANGED <<table, nextID, created, last>>
    /\ UNCHANGED <<ledgerVars, ledgerObs, freqVars, engineVars, adminVars, beyond>>

\* UpdateBidStrategyStatus (repository.go 222-227)
UpdateBidStrategyStatus(id, status) ==
    /\ id \in DOMAIN table
    /\ table' = [table EXCEPT ![id].status = status]
    /\ last' = [NoWrite EXCEPT !.kind = "status", !.id = id, !.status = status]
    /\ UNCHANGED <<nextID, upd, created>>
    /\ UNCHANGED <<ledgerVars, ledgerObs, freqVars, engineVars, adminVars, beyond>>

\* DeleteBidStrategy (repository.go 216-220)
DeleteBidStrategy(id) ==
    /\ id \in DOMAIN table
    /\ table' = [i \in DOMAIN table \ {id} |-> table[i]]
    /\ last' = [NoWrite EXCEPT !.kind = "delete", !.id = id]
    /\ UNCHANGED <<nextID, upd, created>>
    /\ UNCHANGED <<ledgerVars, ledgerObs, freqVars, engineVars, adminVars, beyond>>

\* an empty table
TableInit ==
    /\ table = <<>>
    /\ nextID = 1
    /\ upd = [p \in Callers |-> NoUpdate]
    /\ created = <<>>
    /\ last = NoWrite

-----------------------------------------------------------------------------
(* Budget administration: AddBudget, UpdateBudget, GetBudgetStatus *)

\* the Manager the administration calls go to
AdminManager == "m1"

\* the budgets callers pass to AddBudget and UpdateBudget
BudgetInputs ==
    {[ID |-> id, rec |-> [NewBudget(cap, "active", 1, 2) EXCEPT !.Spent = cap - 20]] :
        id \in BudgetIDs, cap \in {20, 40}}

NoStat == [n |-> 0, m |-> "", id |-> "", err |-> "none", val |-> <<>>,
           at |-> 0, ops |-> 0, again |-> FALSE]
NoAdm == [n |-> 0, op |-> "none", m |-> "", id |-> "", err |-> "none"]
NoAdmin == stat = NoStat /\ adm = NoAdm

\* manager.go 66 and 79: the map has an entry for the id
Exists_Never(m, id) == FALSE
Exists(m, id) == id \in DOMAIN budgets[m]

\* AddBudget (manager.go 61-72), under the Manager's mutex
AddBudget(m, b) ==
    /\ LockFree(m)
    /\ adm.n < MaxAdminCalls
    /\ IF Exists(m, b.ID)
       THEN /\ adm' = [n |-> adm.n + 1, op |-> "add", m |-> m, id |-> b.ID,
                       err |-> "ErrBudgetAlreadyExists"]
            /\ UNCHANGED budgets
       ELSE /\ adm' = [n |-> adm.n + 1, op |-> "add", m |-> m, id |-> b.ID,
                       err |-> "nil"]
            /\ budgets' = [budgets EXCEPT ![m] =
                              [i \in DOMAIN @ \cup {b.ID} |->
                                  IF i = b.ID THEN b.rec ELSE @[i]]]
    /\ UNCHANGED <<impl, remote, mu, cpc, carg, ret, now, nCalls, ledgerObs>>
    /\ UNCHANGED <<freqVars, engineVars, tableVars, stat, beyond>>

\* UpdateBudget (manager.go 74-85): the stored record is replaced whole
UpdateBudget(m, b) ==
    /\ LockFree(m)
    /\ adm.n < MaxAdminCalls
    /\ IF ~Exists(m, b.ID)
       THEN /\ adm' = [n |-> adm.n + 1, op |-> "update", m |-> m, id |-> b.ID,
                       err |-> "ErrBudgetNotFound"]
            /\ UNCHANGED budgets
       ELSE /\ adm' = [n |-> adm.n + 1, op |-> "update", m |-> m, id |-> b.ID,
                       err |-> "nil"]
            /\ budgets' = [budgets EXCEPT ![m][b.ID] = b.rec]
    /\ UNCHANGED <<impl, remote, mu, cpc, carg, ret, now, nCalls, ledgerObs>>
    /\ UNCHANGED <<freqVars, engineVars, tableVars, stat, beyond>>

\* the BudgetStatus built by GetBudgetStatus (manager.go 155-170)
BudgetStatusOf(b, t) ==
    [Amount |-> b.Amount, Spent |-> b.Spent, Remaining |-> b.Amount - b.Spent,
     StartTime |-> b.StartTime, EndTime |-> b.EndTime, Status |-> b.Status,
     UpdateTime |-> b.UpdateTime,
     IsActive |-> b.Status = "active" /\ t > b.StartTime /\ t < b.EndTime,
     IsExceeded |-> b.Spent >= b.Amount,
     IsExpired |-> t > b.EndTime]

\* the stored record after GetBudgetStatus has read it (manager.go 150-172)
AfterStatus_Touched(b) == [b EXCEPT !.UpdateTime = now]
AfterStatus(b) == b

\* GetBudgetStatus (manager.go 145-173), under the Manager's read lock
GetBudgetStatus(m, id) ==
    /\ LockFree(m)
    /\ stat.n < MaxStatusCalls
    /\ LET ops == nCalls + adm.n
           again == stat.n > 0 /\ stat.m = m /\ stat.id = id
                    /\ stat.ops = ops /\ stat.at = now
       IN IF ~Exists(m, id)
          THEN /\ stat' = [n |-> stat.n + 1, m |-> m, id |-> id,
                           err |-> "ErrBudgetNotFound", val |-> <<>>,
                           at |-> now, ops |-> ops, again |-> again]
               /\ UNCHANGED budgets
          ELSE /\ stat' = [n |-> stat.n + 1, m |-> m, id |-> id, err |-> "nil",
                           val |-> BudgetStatusOf(budgets[m][id], now),
                           at |-> now, ops |-> ops, again |-> again]
               /\ budgets' = [budgets EXCEPT ![m][id] = AfterStatus(@)]
    /\ UNCHANGED <<impl, remote, mu, cpc, carg, ret, now, nCalls, ledgerObs>>
    /\ UNCHANGED <<freqVars, engineVars, tableVars, adm, beyond>>

\* Managers that hold no budget yet
AdminLedgerInit ==
    /\ impl = "internal"
    /\ budgets = [m \in Managers |-> <<>>]
    /\ remote = [id \in BudgetIDs |-> 0]
    /\ mu = [m \in Managers |-> NoOne]
    /\ cpc = [p \in Callers |-> "idle"]
    /\ carg = [p \in Callers |-> IdleArg]
    /\ ret = [m |-> "m1", id |-> MissingID, amount |-> 0, ok |-> FALSE,
              err |-> "none"]
    /\ now = 0
    /\ nCalls = 0
    /\ okCents = [id \in BudgetIDs |-> 0]
    /\ landedBy = [id \in BudgetIDs |-> {}]
    /\ overlap = [p \in Callers |-> FALSE]
    /\ overlapSum = [id \in BudgetIDs |-> 0]
    /\ othersSince = [m \in Managers |-> [id \in BudgetIDs |-> 0]]
    /\ slack = [id \in BudgetIDs |-> 0]
    /\ allOk = TRUE

-----------------------------------------------------------------------------
(* Traffic handler: Handler.HandleRequest of part_011 *)

\* an ad slot as the traffic request carries it: no billing type
TrafficSlot(min, max) ==
    [SlotID |-> "a", Width |-> 1, Height |-> 1, MinPrice |-> min,
     MaxPrice |-> max, Position |-> "top", AdType |-> "banner"]
GoodSlot == TrafficSlot(1000, 10000)
\* min_price above max_price
BadSlot == TrafficSlot(10000, 1000)
\* len(req.AdSlots) > 10 (part_011 267)
MaxAdSlots == 10
TrafficRequest(user, device, ip, slots) ==
    [RequestID |-> "r", UserID |-> user, DeviceID |-> device, IP |-> ip,
     AdSlots |-> slots]
TrafficRequests ==
    {TrafficRequest("u1", "d1", "ip", <<GoodSlot>>),
     TrafficRequest("u1", "d1", "ip", <<GoodSlot, GoodSlot>>),
     TrafficRequest("",   "d1", "ip", <<GoodSlot>>),
     TrafficRequest("u1", "",   "ip", <<GoodSlot>>),
     TrafficRequest("u1", "d1", "",   <<GoodSlot>>),
     TrafficRequest("u1", "d1", "ip", <<>>),
     TrafficRequest("u1", "d1", "ip", [i \in 1 .. MaxAdSlots + 1 |-> GoodSlot]),
     TrafficRequest("u1", "d1", "ip", <<GoodSlot, BadSlot>>)}

\* validateAdSlot (part_011 281-299)
validateAdSlot(slot) ==
    IF slot.SlotID = "" THEN "ErrInvalidSlotID"
    ELSE IF slot.Width <= 0 \/ slot.Height <= 0 THEN "ErrInvalidAdSlotSize"
    ELSE IF slot.MinPrice < 0 \/ slot.MaxPrice < 0 \/ slot.MinPrice > slot.MaxPrice
         THEN "ErrInvalidAdSlotPrice"
    ELSE IF slot.Position = "" THEN "ErrInvalidAdSlotPosition"
    ELSE IF slot.AdType = "" THEN "ErrInvalidAdType"
    ELSE "nil"

\* validateRequest (part_011 250-279): the first failing test decides
validateRequest(r) ==
    IF r.RequestID = "" THEN "ErrInvalidRequestID"
    ELSE IF r.UserID = "" THEN "ErrInvalidUserID"
    ELSE IF r.DeviceID = "" THEN "ErrInvalidDeviceID"
    ELSE IF r.IP = "" THEN "ErrInvalidIP"
    ELSE IF Len(r.AdSlots) = 0 THEN "ErrNoAdSlots"
    ELSE IF Len(r.AdSlots) > MaxAdSlots THEN "ErrTooManyAdSlots"
    ELSE IF \E i \in 1 .. Len(r.AdSlots) : validateAdSlot(r.AdSlots[i]) # "nil"
         THEN LET i == CHOOSE j \in 1 .. Len(r.AdSlots) :
                          /\ validateAdSlot(r.AdSlots[j]) # "nil"
                          /\ \A k \in 1 .. (j - 1) : validateAdSlot(r.AdSlots[k]) = "nil"
              IN validateAdSlot(r.AdSlots[i])
    ELSE "nil"

\* convertToBidSlots (part_011 326-341): the fields of the traffic slot are
\* copied; the bidding slot's BidType is not set and stays the empty string.
convertToBidSlots(slots) ==
    [i \in 1 .. Len(slots) |->
        [BidType |-> <<>>, MinPrice |-> slots[i].MinPrice,
         MaxPrice |-> slots[i].MaxPrice]]

\* part_011 191-196: the BidRequest handed to the engine
bidReq(r) == [UserID |-> r.UserID, AdSlots |-> convertToBidSlots(r.AdSlots)]

StatusTooManyRequests == 429
StatusBadRequest == 400
StatusServiceUnavailable == 503
StatusOK == 200
StatusInternalServerError == 500

\* part_011 167-189: what the handler makes of CheckTargeting's (ok, err)
AfterTargeting_IgnoreError(ok, err) ==
    IF ~ok /\ err = "nil" THEN "notTargeted" ELSE "bid"
AfterTargeting(ok, err) ==
    IF err # "nil" THEN "unavailable"
    ELSE IF ~ok THEN "notTargeted"
    ELSE "bid"

NoRequest == TrafficRequest("", "", "", <<>>)
NoSight == [verr |-> "none", targeting |-> "none", nReq |-> 0,
            snap |-> [remote |-> <<>>, budgets |-> <<>>, fstore |-> <<>>]]

\* Entry of HandleRequest (part_011 109-165): rate limit, parsing and
\* validation; each failure answers at once.
HandleRequest(r, allow, parses) ==
    /\ hpc \in {"idle", "done"}
    /\ mpc \in {"idle", "done"}
    /\ nReq < MaxRequests
    /\ hobs' = [verr |-> IF ~allow THEN "limited" ELSE IF ~parses THEN "unparsed"
                         ELSE validateRequest(r),
                targeting |-> "none", nReq |-> nReq, snap |-> Snapshot]
    /\ IF ~allow
       THEN hreq' = NoRequest /\ hresp' = StatusTooManyRequests /\ hpc' = "done"
       ELSE IF ~parses
       THEN hreq' = NoRequest /\ hresp' = StatusBadRequest /\ hpc' = "done"
       ELSE IF validateRequest(r) # "nil"
       THEN hreq' = r /\ hresp' = StatusBadRequest /\ hpc' = "done"
       ELSE hreq' = r /\ hresp' = 0 /\ hpc' = "targeting"
    /\ UNCHANGED <<ledgerVars, ledgerObs, freqVars, engineVars, tableVars, adminVars,
                   rtaVars, rest>>

\* part_011 167-189: CheckTargeting answers, fails, or times out
Targeting(ok, err) ==
    /\ hpc = "targeting"
    /\ hobs' = [hobs EXCEPT !.targeting =
                   IF err # "nil" THEN "err" ELSE IF ok THEN "true" ELSE "false"]
    /\ LET next == AfterTargeting(ok, err) IN
       IF next = "unavailable"
       THEN hresp' = StatusServiceUnavailable /\ hpc' = "done"
       ELSE IF next = "notTargeted"
       THEN hresp' = StatusOK /\ hpc' = "done"
       ELSE hresp' = hresp /\ hpc' = "bidding"
    /\ UNCHANGED hreq
    /\ UNCHANGED <<ledgerVars, ledgerObs, freqVars, engineVars, tableVars, adminVars,
                   rtaVars, rest>>

\* part_011 198-199: the engine is called with the converted request
HandlerBid ==
    /\ hpc = "bidding"
    /\ nReq = hobs.nReq
    /\ ProcessBid(bidReq(hreq))

\* part_011 199-248: the engine's return becomes the HTTP answer
HandlerReturn ==
    /\ hpc = "bidding"
    /\ nReq = hobs.nReq + 1
    /\ mpc = "done"
    /\ hresp' = IF result.err \in {"nil", "ErrNoAvailableAds", "ErrBudgetExceeded"}
                THEN StatusOK ELSE StatusInternalServerError
    /\ hpc' = "done"
    /\ UNCHANGED <<hreq, hobs>>
    /\ UNCHANGED <<ledgerVars, ledgerObs, freqVars, engineVars, tableVars, adminVars,
                   rtaVars, rest>>

NoHandler ==
    /\ hreq = NoRequest
    /\ hpc = "idle"
    /\ hresp = 0
    /\ hobs = NoSight

-----------------------------------------------------------------------------
(* RTA ConfigManager: internal/rta/config.go *)

RtaCallers == {"c1", "c2"}
TaskIDs == {"t1", "t2"}
\* the task configurations callers pass to SetConfig
TaskConfigs == {[TaskID |-> id, Priority |-> pr] : id \in TaskIDs, pr \in {1, 2}}
Absent == [TaskID |-> "", Priority |-> 0]
RtaIdle == [op |-> "none", id |-> "", config |-> Absent, acc |-> <<>>,
            expect |-> <<>>]

\* a map after m[id] = config and after delete(m, id)
MapSet(m, id, config) ==
    [i \in DOMAIN m \cup {id} |-> IF i = id THEN config ELSE m[i]]
MapDelete(m, id) == [i \in DOMAIN m \ {id} |-> m[i]]
\* config, exists := m[id]
MapGet(m, id) == IF id \in DOMAIN m THEN m[id] ELSE Absent

\* m.mu.Lock() and m.mu.RLock() can be taken
CanLock == rwmu.w = NoOne /\ rwmu.r = {}
CanRLock_NoMutex == TRUE
CanRLock == rwmu.w = NoOne

\* a caller enters SetConfig, GetConfig, RemoveConfig or ListConfigs
RtaCall(c, op, id, config) ==
    /\ rpc[c] = "idle"
    /\ op = "set" => config.TaskID = id
    /\ op # "set" => config = Absent
    /\ op = "list" => id = ""
    /\ op # "list" => id \in TaskIDs
    /\ rpc' = [rpc EXCEPT ![c] = "lock"]
    /\ rarg' = [rarg EXCEPT ![c] = [RtaIdle EXCEPT !.op = op, !.id = id,
                                                   !.config = config]]
    /\ UNCHANGED <<configs, rwmu, ref, rret>>
    /\ UNCHANGED <<ledgerVars, ledgerObs, freqVars, engineVars, tableVars, adminVars,
                   handlerVars, rest>>

\* m.mu.Lock() of SetConfig (config.go 36) and RemoveConfig (51).  The calls
\* take effect in the order in which they get the lock.
RtaLock(c) ==
    /\ rpc[c] = "lock"
    /\ rarg[c].op \in {"set", "remove"}
    /\ CanLock
    /\ rwmu' = [rwmu EXCEPT !.w = c]
    /\ ref' = IF rarg[c].op = "set" THEN MapSet(ref, rarg[c].id, rarg[c].config)
              ELSE MapDelete(ref, rarg[c].id)
    /\ rpc' = [rpc EXCEPT ![c] = "body"]
    /\ UNCHANGED <<configs, rarg, rret>>
    /\ UNCHANGED <<ledgerVars, ledgerObs, freqVars, engineVars, tableVars, adminVars,
                   handlerVars, rest>>

\* m.mu.RLock() of GetConfig (config.go 43) and ListConfigs (58)
RtaRLock(c) ==
    /\ rpc[c] = "lock"
    /\ rarg[c].op \in {"get", "list"}
    /\ CanRLock
    /\ rwmu' = [rwmu EXCEPT !.r = @ \cup {c}]
    /\ rarg' = [rarg EXCEPT ![c].expect = ref]
    /\ rpc' = [rpc EXCEPT ![c] = "body"]
    /\ UNCHANGED <<configs, ref, rret>>
    /\ UNCHANGED <<ledgerVars, ledgerObs, freqVars, engineVars, tableVars, adminVars,
                   handlerVars, rest>>

\* SetConfig's assignment (config.go 38) and RemoveConfig's delete (53), then
\* the deferred Unlock
RtaWrite(c) ==
    /\ rpc[c] = "body"
    /\ rarg[c].op \in {"set", "remove"}
    /\ configs' = IF rarg[c].op = "set"
                  THEN MapSet(configs, rarg[c].id, rarg[c].config)
                  ELSE MapDelete(configs, rarg[c].id)
    /\ rwmu' = [rwmu EXCEPT !.w = IF @ = c THEN NoOne ELSE @]
    /\ rpc' = [rpc EXCEPT ![c] = "idle"]
    /\ rarg' = [rarg EXCEPT ![c] = RtaIdle]
    /\ UNCHANGED <<ref, rret>>
    /\ UNCHANGED <<ledgerVars, ledgerObs, freqVars, engineVars, tableVars, adminVars,
                   handlerVars, rest>>

\* GetConfig's lookup (config.go 45-46), then the deferred RUnlock
RtaGet(c) ==
    /\ rpc[c] = "body"
    /\ rarg[c].op = "get"
    /\ rret' = [op |-> "get", id |-> rarg[c].id,
                exists |-> rarg[c].id \in DOMAIN configs,
                config |-> MapGet(configs, rarg[c].id),
                list |-> <<>>, expect |-> rarg[c].expect]
    /\ rwmu' = [rwmu EXCEPT !.r = @ \ {c}]
    /\ rpc' = [rpc EXCEPT ![c] = "idle"]
    /\ rarg' = [rarg EXCEPT ![c] = RtaIdle]
    /\ UNCHANGED <<configs, ref>>
    /\ UNCHANGED <<ledgerVars, ledgerObs, freqVars, engineVars, tableVars, adminVars,
                   handlerVars, rest>>

\* the task ids ListConfigs has appended so far
Visited(acc) == {acc[i].TaskID : i \in 1 .. Len(acc)}

\* one turn of ListConfigs' loop over the map (config.go 62-64): the range
\* yields, in no fixed order, an entry it has not yielded yet
RtaListStep(c) ==
    /\ rpc[c] = "body"
    /\ rarg[c].op = "list"
    /\ \E id \in DOMAIN configs \ Visited(rarg[c].acc) :
          rarg' = [rarg EXCEPT ![c].acc = Append(@, configs[id])]
    /\ UNCHANGED <<configs, rwmu, rpc, ref, rret>>
    /\ UNCHANGED <<ledgerVars, ledgerObs, freqVars, engineVars, tableVars, adminVars,
                   handlerVars, rest>>

\* the loop is over (config.go 65): the slice is returned, RUnlock runs
RtaListDone(c) ==
    /\ rpc[c] = "body"
    /\ rarg[c].op = "list"
    /\ DOMAIN configs \ Visited(rarg[c].acc) = {}
    /\ rret' = [op |-> "list", id |-> "", exists |-> FALSE, config |-> Absent,
                list |-> rarg[c].acc, expect |-> rarg[c].expect]
    /\ rwmu' = [rwmu EXCEPT !.r = @ \ {c}]
    /\ rpc' = [rpc EXCEPT ![c] = "idle"]
    /\ rarg' = [rarg EXCEPT ![c] = RtaIdle]
    /\ UNCHANGED <<configs, ref>>
    /\ UNCHANGED <<ledgerVars, ledgerObs, freqVars, engineVars, tableVars, adminVars,
                   handlerVars, rest>>

\* NewConfigManager (config.go 27-32)
NoRta ==
    /\ configs = <<>>
    /\ rwmu = [w |-> NoOne, r |-> {}]
    /\ rpc = [c \in RtaCallers |-> "idle"]
    /\ rarg = [c \in RtaCallers |-> RtaIdle]
    /\ ref = <<>>
    /\ rret = [op |-> "none", id |-> "", exists |-> FALSE, config |-> Absent,
               list |-> <<>>, expect |-> <<>>]

-----------------------------------------------------------------------------
(* Engine variant: Engine.ProcessBid of part_013 *)

\* a slot with a higher floor
Premium(bidType) == [BidType |-> bidType, MinPrice |-> 3000, MaxPrice |-> 10000]
SlotLists ==
    {<<Slot(CPM)>>, <<Slot(CPM), Slot(CPM)>>,
     <<Premium(CPM)>>, <<Premium(CPM), Slot(CPM)>>}
SlotIndexes == UNION {DOMAIN l : l \in SlotLists}
\* two requests that are equal except for the slots after the first one
Pairs ==
    {p \in [UserID : {"u1"}, AdSlots : SlotLists]
            \X [UserID : {"u1"}, AdSlots : SlotLists] :
        p[1].AdSlots[1] = p[2].AdSlots[1]}
\* the scheduling of a call: whether the listing fails, whether the remote
\* increment and the frequency read fail at each slot, and which of the
\* candidates that tie the unstable sort puts first
Schedules ==
    [lerr : BOOLEAN, berr : [SlotIndexes -> BOOLEAN],
     ferr : [SlotIndexes -> BOOLEAN], pick : {"first", "last"}]

\* calculateBidPrice (part_013 200-203), in mills
calculateBidPrice(strategy, slot) == strategy.Price * MillsPerUnit
\* estimateCTR (part_013 206-209): the constant 0.01, in hundredths
estimateCTR == 1

\* getBidCandidates (part_013 157-183)
getBidCandidates(slot, strats) ==
    LET Fits(strategy) ==
            /\ strategy.Status = 1
            /\ ~(\/ calculateBidPrice(strategy, slot) < slot.MinPrice
                 \/ calculateBidPrice(strategy, slot) > slot.MaxPrice)
        kept == SelectSeq(strats, Fits)
    IN [i \in 1 .. Len(kept) |->
           [ID |-> kept[i].ID, BidPrice |-> calculateBidPrice(kept[i], slot),
            CTR |-> estimateCTR]]

\* selectWinner (part_013 186-197): the first after sort.Slice by
\* BidPrice * CTR, descending; among candidates that tie, either end
selectWinner(cands, pick) ==
    LET tops == {i \in 1 .. Len(cands) :
                    \A j \in 1 .. Len(cands) :
                        ~(cands[j].BidPrice * cands[j].CTR
                             > cands[i].BidPrice * cands[i].CTR)}
        lowest == CHOOSE i \in tops : \A j \in tops : i <= j
        highest == CHOOSE i \in tops : \A j \in tops : i >= j
    IN IF pick = "first" THEN cands[lowest] ELSE cands[highest]

NoOutcome == [err |-> "none", AdID |-> <<>>, BidPrice |-> 0,
              budgets |-> <<>>, remote |-> <<>>]

\* part_013 107-153: the loop over the request's slots from slot k on, with
\* the Manager's records bud and the remote counters rem as the iterations
\* before k left them.  CheckAndDeduct comes before CheckImpression, so a
\* slot given up at the frequency check has already been paid for.
RECURSIVE SlotLoop(_, _, _, _, _, _)
SlotLoop(rq, sc, strats, k, bud, rem) ==
    IF k > Len(rq.AdSlots)
    THEN [err |-> "ErrNoAvailableAds", AdID |-> <<>>, BidPrice |-> 0,
          budgets |-> bud, remote |-> rem]
    ELSE
    LET slot == rq.AdSlots[k]
        cands == getBidCandidates(slot, strats)
    IN IF Len(cands) = 0 THEN SlotLoop(rq, sc, strats, k + 1, bud, rem)
       ELSE
       LET winner == selectWinner(cands, sc.pick)
           id == winner.ID
           verdict == IF id \notin DOMAIN bud THEN "ErrBudgetNotFound"
                      ELSE RecordCheck(bud[id], winner.BidPrice)
           newSpent == rem[getBudgetKey(id)] + ToCents(winner.BidPrice)
           rem2 == [rem EXCEPT ![getBudgetKey(id)] = newSpent]
           bud2 == [bud EXCEPT ![id] = Committed(@, newSpent)]
       IN IF verdict # "pass" \/ sc.berr[k]
          THEN SlotLoop(rq, sc, strats, k + 1, bud, rem)
          ELSE IF sc.ferr[k] \/ ~CheckImpressionValue(rq.UserID, id)
          THEN SlotLoop(rq, sc, strats, k + 1, bud2, rem2)
          ELSE [err |-> "nil", AdID |-> Text(id), BidPrice |-> winner.BidPrice,
                budgets |-> bud2, remote |-> rem2]

\* what one call returns and leaves behind (part_013 80-154)
Outcome(rq, sc) ==
    LET untouched == [NoOutcome EXCEPT !.budgets = budgets[EngineManager],
                                       !.remote = remote]
    IN IF rq.UserID = "" \/ Len(rq.AdSlots) = 0
       THEN [untouched EXCEPT !.err = "ErrInvalidBidRequest"]
       ELSE IF sc.lerr THEN [untouched EXCEPT !.err = "ErrRepository"]
       ELSE IF Len(repo) = 0 THEN [untouched EXCEPT !.err = "ErrNoAvailableAds"]
       ELSE SlotLoop(rq, sc, repo, 1, budgets[EngineManager], remote)

\* two calls are set side by side: their requests and their scheduling
SlotsPair(p, sc) ==
    /\ sreq = <<>>
    /\ sreq' = p
    /\ sched' = sc
    /\ UNCHANGED sout
    /\ UNCHANGED <<ledgerVars, ledgerObs, freqVars, engineVars, tableVars, adminVars,
                   handlerVars, rtaVars, raceVars, later>>

\* call r of the pair runs, each from the catalog, budget and frequency
\* state that both were given
SlotsProcessBid(r) ==
    /\ sreq # <<>>
    /\ sout[r].err = "none"
    /\ sout' = [sout EXCEPT ![r] = Outcome(sreq[r], sched)]
    /\ UNCHANGED <<sreq, sched>>
    /\ UNCHANGED <<ledgerVars, ledgerObs, freqVars, engineVars, tableVars, adminVars,
                   handlerVars, rtaVars, raceVars, later>>

NoPair ==
    /\ sreq = <<>>
    /\ sched = <<>>
    /\ sout = [r \in 1 .. 2 |-> NoOutcome]

-----------------------------------------------------------------------------
(* Concurrent calls of Engine.ProcessBid (part_014) for one user *)

\* The HTTP and gRPC servers run each request on its own goroutine, so
\* calls of ProcessBid overlap.  Each call is followed through the steps
\* that read or write the shared stores: the frequency check and the
\* deduction of each of its tasks, and the recording for its winner.
Bidders == {"b1", "b2", "b3"}
RaceRequest == [UserID |-> "u1", AdSlots |-> <<Slot(Both)>>]
\* catalogs in which the first strategy can be bid and paid for three times
RaceCatalogs ==
    {c \in Catalogs :
        /\ Len(c) > 0
        /\ c[1].BidType = CPC /\ c[1].Status = 1
        /\ c[2].BidType = CPM /\ c[2].Price = 5000}

\* part_014 114-153: the call starts; the listing fails, or one task is
\* started per eligible strategy
BidderStart(b) ==
    /\ bpc[b] = "idle"
    /\ \E lerr \in BOOLEAN :
          IF InvalidRequest(RaceRequest) \/ lerr
          THEN /\ bpc' = [bpc EXCEPT ![b] = "done"]
               /\ UNCHANGED btask
          ELSE /\ bpc' = [bpc EXCEPT ![b] = "collect"]
               /\ btask' = [btask EXCEPT ![b] =
                     [i \in Tasks |->
                        IF i <= Len(repo) /\ Eligible(repo[i], RaceRequest.AdSlots[1])
                        THEN "freq" ELSE "none"]]
    /\ UNCHANGED bwin
    /\ UNCHANGED <<ledgerVars, ledgerObs, freqVars, engineVars, tableVars, adminVars,
                   handlerVars, rtaVars, pairVars, later>>

\* part_014 165-190 in call b: the frequency check of task i, then its price
BidderFreq(b, i) ==
    /\ btask[b][i] = "freq"
    /\ LET s == repo[i]
           bidPrice == calculateFinalBidPrice(s, predictCTR)
       IN \E err \in {"nil", "ErrStore"} :
            LET ok == IF err = "nil"
                      THEN CheckImpressionValue(RaceRequest.UserID, s.ID)
                      ELSE FALSE
            IN btask' = [btask EXCEPT ![b][i] =
                  IF ~FreqPasses(ok, err) THEN "done"
                  ELSE IF predictCTR <= 0 \/ bidPrice <= 0 THEN "done"
                  ELSE IF OutOfRange(bidPrice, RaceRequest.AdSlots[1]) THEN "done"
                  ELSE "budget"]
    /\ UNCHANGED <<bpc, bwin>>
    /\ UNCHANGED <<ledgerVars, ledgerObs, freqVars, engineVars, tableVars, adminVars,
                   handlerVars, rtaVars, pairVars, later>>

\* part_014 192-203 in call b: CheckAndDeduct of task i under the Manager's
\* mutex, then the candidate goes into the channel
BidderBudget(b, i) ==
    /\ btask[b][i] = "budget"
    /\ LET id == repo[i].ID
           amount == calculateFinalBidPrice(repo[i], predictCTR)
       IN IF LocalCheck(EngineManager, id, amount) # "pass"
          THEN /\ btask' = [btask EXCEPT ![b][i] = "done"]
               /\ UNCHANGED <<remote, budgets>>
          ELSE \E storeErr \in BOOLEAN :
                 IF storeErr
                 THEN /\ btask' = [btask EXCEPT ![b][i] = "done"]
                      /\ UNCHANGED <<remote, budgets>>
                 ELSE /\ Deduct(EngineManager, id, amount)
                      /\ btask' = [btask EXCEPT ![b][i] = "sent"]
    /\ UNCHANGED <<bpc, bwin>>
    /\ UNCHANGED <<impl, mu, cpc, carg, ret, now, nCalls, ledgerObs, freqVars,
                   engineVars, tableVars, adminVars, handlerVars, rtaVars, pairVars, later>>

\* part_014 205-227 in call b: every task has returned, the channel is
\* drained and sorted; the candidates arrive in any order and sort.Slice is
\* not stable, so any candidate of the highest price may come first
BidderRank(b) ==
    /\ bpc[b] = "collect"
    /\ \A i \in Tasks : btask[b][i] \in {"none", "done", "sent"}
    /\ LET sent == {i \in Tasks : btask[b][i] = "sent"}
           price(i) == calculateFinalBidPrice(repo[i], predictCTR)
       IN IF sent = {}
          THEN bpc' = [bpc EXCEPT ![b] = "done"] /\ UNCHANGED bwin
          ELSE \E i \in sent :
                 /\ \A j \in sent : ~(price(j) > price(i))
                 /\ bwin' = [bwin EXCEPT ![b] = repo[i].ID]
                 /\ bpc' = [bpc EXCEPT ![b] = "record"]
    /\ UNCHANGED btask
    /\ UNCHANGED <<ledgerVars, ledgerObs, freqVars, engineVars, tableVars, adminVars,
                   handlerVars, rtaVars, pairVars, later>>

\* part_014 229-247 in call b: RecordImpression for the winner, whose error
\* is only logged, then the response
BidderRecord(b) ==
    /\ bpc[b] = "record"
    /\ LET k == impKey(RaceRequest.UserID, bwin[b], DayOf(now))
       IN \E storeErr \in BOOLEAN :
            IF storeErr
            THEN UNCHANGED <<fstore, recordedOn>>
            ELSE /\ fstore' = AfterRecord(k, TRUE)
                 /\ recordedOn' = [recordedOn EXCEPT
                        ![RaceRequest.UserID][bwin[b]][DayOf(now)] = @ + 1]
    /\ bpc' = [bpc EXCEPT ![b] = "done"]
    /\ UNCHANGED <<btask, bwin>>
    /\ UNCHANGED <<fconfig, chk, cfgret>>
    /\ UNCHANGED <<ledgerVars, ledgerObs, engineVars, tableVars, adminVars,
                   handlerVars, rtaVars, pairVars, later>>

NoRace ==
    /\ bpc = [b \in Bidders |-> "idle"]
    /\ btask = [b \in Bidders |-> [i \in Tasks |-> "none"]]
    /\ bwin = [b \in Bidders |-> ""]

-----------------------------------------------------------------------------
(* Sliding window: DistributedController of internal/bidding/repository.go *)

\* Time is the clock of the model; a timestamp is the clock value at which
\* the call read time.Now().  The float64 score of an entry is taken to be
\* its timestamp: rounding of nanosecond values is not modelled.
WindowKeys == {"k1"}
\* the window lengths and limits callers pass, in clock ticks and entries
Windows == {1, 2}
Limits == {1, 2}
Stamps == 0 .. MaxClock
NoSet == [members |-> {}, exp |-> NoTTL]

\* the members the store holds for key k: none once the key has expired
Members(k) ==
    IF zset[k].exp # NoTTL /\ now >= zset[k].exp THEN {} ELSE zset[k].members

\* ZAdd(key, Z{Score: float64(now), Member: now}) (repository.go 353-356):
\* the members of a sorted set are unique, so adding a member that is
\* already there leaves one entry
ZAdd(members, member) == members \cup {member}

\* ZRemRangeByScore(key, "0", windowStart) (repository.go 319): both ends
\* of the range are inclusive
ZRemRangeByScore(members, lo, hi) == {m \in members : ~(lo <= m /\ m <= hi)}
\* ZCount(key, windowStart, now) (repository.go 322): both ends inclusive
ZCount(members, lo, hi) == Cardinality({m \in members : lo <= m /\ m <= hi})

\* RecordFrequency calls for k that returned nil with a timestamp in stamps
Logged(k, stamps) ==
    LET Sum[S \in SUBSET Stamps] ==
            IF S = {} THEN 0
            ELSE LET t == CHOOSE x \in S : TRUE
                 IN zlog[k][t] + Sum[S \ {t}]
    IN Sum[stamps]

\* CheckFrequency (repository.go 304-341): one pipeline of ZRemRangeByScore
\* and ZCount; a failed Exec returns (false, err)
CheckFrequency(k, limit, window) ==
    /\ LET windowStart == now - window
           kept == ZRemRangeByScore(Members(k), 0, windowStart)
           count == ZCount(kept, windowStart, now)
           allowed == count < limit
       IN \E storeErr \in BOOLEAN :
            IF storeErr
            THEN /\ zret' = [key |-> k, limit |-> limit, window |-> window,
                             err |-> "ErrRedis", count |-> 0, allowed |-> FALSE,
                             after |-> 0, from |-> 0]
                 /\ UNCHANGED zset
            ELSE /\ zset' = [zset EXCEPT ![k] =
                                IF kept = {} THEN NoSet
                                ELSE [members |-> kept, exp |-> zset[k].exp]]
                 /\ zret' = [key |-> k, limit |-> limit, window |-> window,
                             err |-> "nil", count |-> count, allowed |-> allowed,
                             after |-> Logged(k, {t \in Stamps :
                                           windowStart < t /\ t <= now}),
                             from |-> Logged(k, {t \in Stamps :
                                           windowStart <= t /\ t <= now})]
    /\ UNCHANGED zlog
    /\ UNCHANGED <<ledgerVars, ledgerObs, freqVars, engineVars, tableVars, adminVars,
                   handlerVars, rtaVars, pairVars, raceVars, goVars>>

\* RecordFrequency (repository.go 343-370): one pipeline of ZAdd and
\* Expire(key, window)
RecordFrequency(k, window) ==
    /\ Logged(k, Stamps) < MaxWindowRecords
    /\ \E storeErr \in BOOLEAN :
          IF storeErr
          THEN UNCHANGED <<zset, zlog>>
          ELSE /\ zset' = [zset EXCEPT ![k] =
                              [members |-> ZAdd(Members(k), now),
                               exp |-> now + window]]
               /\ zlog' = [zlog EXCEPT ![k][now] = @ + 1]
    /\ UNCHANGED zret
    /\ UNCHANGED <<ledgerVars, ledgerObs, freqVars, engineVars, tableVars, adminVars,
                   handlerVars, rtaVars, pairVars, raceVars, goVars>>

NoWindowCheck == [key |-> "", limit |-> 0, window |-> 0, err |-> "none",
                  count |-> 0, allowed |-> FALSE, after |-> 0, from |-> 0]

NoWindow ==
    /\ zset = [k \in WindowKeys |-> NoSet]
    /\ zlog = [k \in WindowKeys |-> [t \in Stamps |-> 0]]
    /\ zret = NoWindowCheck

-----------------------------------------------------------------------------
(* Engine.ProcessBid of internal/bidding/engine.go: tasks, channel, WaitGroup *)

\* The call is followed through what its goroutines do to the WaitGroup and
\* to resultChan.  The candidate ads are interchangeable here, so the tasks
\* are counted by where they stand; what the stores answer to a task is a
\* choice between its returning early and its reaching the send.

\* make(chan BidCandidate, 10) (engine.go 110)
ChanCap == 10
NoGoSight == [ads |-> 0, waited |-> FALSE, closes |-> 0]

\* engine.go 103-116: the request is refused, or there is no candidate ad,
\* or one task is started per candidate ad (118-120)
GoProcessBid(valid, ads) ==
    /\ gpc = "idle"
    /\ gobs' = [ads |-> ads, waited |-> FALSE, closes |-> 0]
    /\ IF ~valid \/ ads = 0
       THEN gpc' = "done" /\ UNCHANGED <<grun, gwg>>
       ELSE gpc' = "collect" /\ grun' = ads /\ gwg' = ads
    /\ UNCHANGED <<gsend, gchan, gclosed, ggot>>
    /\ UNCHANGED <<ledgerVars, ledgerObs, freqVars, engineVars, tableVars, adminVars,
                   handlerVars, rtaVars, pairVars, raceVars, windowVars>>

\* engine.go 121-163: a task returns without a candidate, at one of its
\* checks or after a recovered panic; the deferred wg.Done() runs
GoTaskReturns ==
    /\ grun > 0
    /\ grun' = grun - 1
    /\ gwg' = gwg - 1
    /\ UNCHANGED <<gpc, gsend, gchan, gclosed, ggot, gobs>>
    /\ UNCHANGED <<ledgerVars, ledgerObs, freqVars, engineVars, tableVars, adminVars,
                   handlerVars, rtaVars, pairVars, raceVars, windowVars>>

\* engine.go 133-165: a task passes its checks and arrives at the send; it
\* waits there when the buffer is full
GoTaskReady ==
    /\ grun > 0
    /\ grun' = grun - 1
    /\ gsend' = gsend + 1
    /\ gobs' = [gobs EXCEPT !.waited = @ \/ gchan = ChanCap]
    /\ UNCHANGED <<gpc, gchan, gwg, gclosed, ggot>>
    /\ UNCHANGED <<ledgerVars, ledgerObs, freqVars, engineVars, tableVars, adminVars,
                   handlerVars, rtaVars, pairVars, raceVars, windowVars>>

\* engine.go 165: the send completes when the buffer has room; the task
\* returns and wg.Done() runs
GoTaskSend ==
    /\ gsend > 0
    /\ gchan < ChanCap
    /\ gsend' = gsend - 1
    /\ gchan' = gchan + 1
    /\ gwg' = gwg - 1
    /\ UNCHANGED <<gpc, grun, gclosed, ggot, gobs>>
    /\ UNCHANGED <<ledgerVars, ledgerObs, freqVars, engineVars, tableVars, adminVars,
                   handlerVars, rtaVars, pairVars, raceVars, windowVars>>

\* engine.go 170-173: wg.Wait() returns when the counter is 0
WaitReturns_Early(n) == TRUE
WaitReturns(n) == n = 0

\* engine.go 170-173: the goroutine that waits and closes the channel
GoCloser ==
    /\ gpc = "collect"
    /\ ~gclosed
    /\ WaitReturns(gwg)
    /\ gclosed' = TRUE
    /\ gobs' = [gobs EXCEPT !.closes = @ + 1]
    /\ UNCHANGED <<gpc, grun, gsend, gchan, gwg, ggot>>
    /\ UNCHANGED <<ledgerVars, ledgerObs, freqVars, engineVars, tableVars, adminVars,
                   handlerVars, rtaVars, pairVars, raceVars, windowVars>>

\* engine.go 177-179: one turn of the loop over the channel
GoReceive ==
    /\ gpc = "collect"
    /\ gchan > 0
    /\ gchan' = gchan - 1
    /\ ggot' = ggot + 1
    /\ UNCHANGED <<gpc, grun, gsend, gwg, gclosed, gobs>>
    /\ UNCHANGED <<ledgerVars, ledgerObs, freqVars, engineVars, tableVars, adminVars,
                   handlerVars, rtaVars, pairVars, raceVars, windowVars>>

\* engine.go 177-213: the loop ends when the channel is closed and empty;
\* the rest of the call waits for nothing
GoReturn ==
    /\ gpc = "collect"
    /\ gclosed
    /\ gchan = 0
    /\ gpc' = "done"
    /\ UNCHANGED <<grun, gsend, gchan, gwg, gclosed, ggot, gobs>>
    /\ UNCHANGED <<ledgerVars, ledgerObs, freqVars, engineVars, tableVars, adminVars,
                   handlerVars, rtaVars, pairVars, raceVars, windowVars>>

NoGo ==
    /\ gpc = "idle"
    /\ grun = 0
    /\ gsend = 0
    /\ gchan = 0
    /\ gwg = 0
    /\ gclosed = FALSE
    /\ ggot = 0
    /\ gobs = NoGoSight

-----------------------------------------------------------------------------
(* Specifications *)

\* the components a specification leaves alone stay as they start
Standby == NoHandler /\ NoRta /\ NoPair /\ NoRace /\ NoWindow /\ NoGo

CallDeduct ==
    \E p \in Callers, m \in Managers, id \in BudgetIDs \cup {MissingID},
       amount \in Amounts : Begin(p, m, id, amount)

LedgerNext ==
    \/ CallDeduct
    \/ \E p \in Callers : IncrOk(p)
    \/ \E p \in Callers : IncrErr(p)
    \/ Tick

Ledger016Next ==
    \/ CallDeduct
    \/ \E p \in Callers : IncrFirst(p)
    \/ \E p \in Callers : IncrFirstErr(p)
    \/ \E p \in Callers : IncrSecond(p)
    \/ \E p \in Callers : IncrSecondErr(p)
    \/ Tick

\* the ledger of internal/budget/manager.go
InitLedger ==
    LedgerInit("internal", {"active", "inactive"}) /\ FreqStoreInit /\ NoEngine
    /\ TableInit /\ NoAdmin /\ Standby
SpecLedger == InitLedger /\ [][LedgerNext]_vars
\* the ledger of part_016
InitLedger016 ==
    LedgerInit("part016", {"active", "inactive"}) /\ FreqStoreInit /\ NoEngine
    /\ TableInit /\ NoAdmin /\ Standby
SpecLedger016 == InitLedger016 /\ [][Ledger016Next]_vars

FreqInit ==
    /\ LedgerInit("internal", {"active"})
    /\ FreqStoreInit
    /\ NoEngine
    /\ TableInit
    /\ NoAdmin /\ Standby

\* the target the frequency specification exercises
FreqTarget == "s1"

FreqNext ==
    \/ \E u \in Users : CheckImpression(u, FreqTarget)
    \/ \E u \in Users : RecordImpression(u, FreqTarget)
    \/ \E c \in ConfigInputs : UpdateConfig(FreqTarget, c)
    \/ Tick

\* the frequency controller over its store
SpecFreq == FreqInit /\ [][FreqNext]_vars

\* The engine's world: one Manager holding a budget per strategy, the clock
\* inside every budget's validity window, and for the first strategy either
\* no frequency override or an override of one impression a day.
EngineInit ==
    /\ impl = "internal"
    /\ budgets = [m \in Managers |->
                     [id \in {StrategyIDs[i] : i \in Tasks} |->
                         NewBudget(EngineCap(id), "active", 0, MaxClock)]]
    /\ remote = [id \in {StrategyIDs[i] : i \in Tasks} |-> 0]
    /\ mu = [m \in Managers |-> NoOne]
    /\ cpc = [p \in Callers |-> "idle"]
    /\ carg = [p \in Callers |-> IdleArg]
    /\ ret = [m |-> "m1", id |-> MissingID, amount |-> 0, ok |-> FALSE,
              err |-> "none"]
    /\ now = 1
    /\ nCalls = 0
    /\ okCents = [id \in BudgetIDs |-> 0]
    /\ landedBy = [id \in BudgetIDs |-> {}]
    /\ overlap = [p \in Callers |-> FALSE]
    /\ overlapSum = [id \in BudgetIDs |-> 0]
    /\ othersSince = [m \in Managers |-> [id \in BudgetIDs |-> 0]]
    /\ slack = [id \in BudgetIDs |-> 0]
    /\ allOk = TRUE
    /\ fstore = [k \in Users \X Targets \X Days |-> [n |-> 0, exp |-> NoTTL]]
    /\ \E c \in {NoConfig,
                  [set |-> TRUE, impression_limit |-> 1, click_limit |-> 3,
                   time_window |-> 1, qps |-> 100]} :
          fconfig = [t \in Targets |-> IF t = StrategyIDs[1] THEN c ELSE NoConfig]
    /\ chk = NoCheck
    /\ recordedOn = [u \in Users |-> [t \in Targets |-> [d \in Days |-> 0]]]
    /\ cfgret = NoConfigCall
    /\ EngineIdle
    /\ repo \in Catalogs
    /\ TableInit
    /\ NoAdmin /\ Standby

EngineNext ==
    \/ \E r \in Requests : ProcessBid(r)
    \/ ListFails
    \/ ListAndSpawn
    \/ \E i \in Tasks : TaskFreq(i)
    \/ \E i \in Tasks : TaskBudget(i)
    \/ \E i \in Tasks : TaskSend(i)
    \/ \E i \in Tasks : TaskPanic(i)
    \/ Closer
    \/ Receive
    \/ Rank
    \/ RecordWinner
    \/ Respond
    \/ Cancel

\* the bidding engine over the ledger and the frequency controller
SpecEngine == EngineInit /\ [][EngineNext]_vars

TableSpecInit ==
    /\ LedgerInit("internal", {"active"})
    /\ FreqStoreInit
    /\ NoEngine
    /\ TableInit
    /\ NoAdmin /\ Standby

TableNext ==
    \/ \E s \in StrategyInputs, locked \in {0, 1} : CreateBidStrategy(s, locked)
    \/ \E p \in Callers, id \in RowIDs, s \in StrategyInputs : UpdateSelect(p, id, s)
    \/ \E p \in Callers : UpdateExec(p)
    \/ \E p \in Callers : UpdateExecErr(p)
    \/ \E id \in RowIDs, status \in {0, 1} : UpdateBidStrategyStatus(id, status)
    \/ \E id \in RowIDs : DeleteBidStrategy(id)

\* CheckAndDeduct calls between the administration calls
AdminDeduct ==
    \E p \in Callers, id \in BudgetIDs : Begin(p, AdminManager, id, 20)

AdminInit ==
    /\ AdminLedgerInit
    /\ FreqStoreInit
    /\ NoEngine
    /\ TableInit
    /\ NoAdmin /\ Standby

AdminNext ==
    \/ \E b \in BudgetInputs : AddBudget(AdminManager, b)
    \/ \E b \in BudgetInputs : UpdateBudget(AdminManager, b)
    \/ \E id \in BudgetIDs \cup {MissingID} : GetBudgetStatus(AdminManager, id)
    \/ AdminDeduct
    \/ \E p \in Callers : IncrOk(p)
    \/ \E p \in Callers : IncrErr(p)
    \/ Tick

\* the Manager's administration calls next to CheckAndDeduct
SpecAdmin == AdminInit /\ [][AdminNext]_vars

\* The handler's world is the engine's.
HandlerInit == EngineInit

HandlerNext ==
    \/ \E r \in TrafficRequests, allow \in BOOLEAN, parses \in BOOLEAN :
          HandleRequest(r, allow, parses)
    \/ \E ok \in BOOLEAN, err \in {"nil", "ErrRTA"} :
          (err # "nil" => ~ok) /\ Targeting(ok, err)
    \/ HandlerBid
    \/ ListFails
    \/ ListAndSpawn
    \/ Closer
    \/ Rank
    \/ HandlerReturn

\* the traffic handler in front of the bidding engine
SpecHandler == HandlerInit /\ [][HandlerNext]_vars

RtaInit ==
    /\ LedgerInit("internal", {"active"})
    /\ FreqStoreInit
    /\ NoEngine
    /\ TableInit
    /\ NoAdmin /\ Standby

RtaNext ==
    \/ \E c \in RtaCallers, op \in {"set", "get", "remove", "list"},
          id \in TaskIDs \cup {""}, config \in TaskConfigs \cup {Absent} :
          RtaCall(c, op, id, config)
    \/ \E c \in RtaCallers : RtaLock(c)
    \/ \E c \in RtaCallers : RtaRLock(c)
    \/ \E c \in RtaCallers : RtaWrite(c)
    \/ \E c \in RtaCallers : RtaGet(c)
    \/ \E c \in RtaCallers : RtaListStep(c)
    \/ \E c \in RtaCallers : RtaListDone(c)

\* the RTA ConfigManager under concurrent callers
SpecRta == RtaInit /\ [][RtaNext]_vars

\* the strategy repository over its table
SpecTable == TableSpecInit /\ [][TableNext]_vars

\* The engine variant of part_013: two calls with requests that agree on
\* their first slot, from one state and under one scheduling.
SlotsInit == EngineInit

SlotsNext ==
    \/ \E p \in Pairs, sc \in Schedules : SlotsPair(p, sc)
    \/ \E r \in 1 .. 2 : SlotsProcessBid(r)

SpecSlots == SlotsInit /\ [][SlotsNext]_vars

\* Concurrent calls of ProcessBid for one user.
RaceInit == EngineInit /\ repo \in RaceCatalogs

RaceNext ==
    \/ \E b \in Bidders : BidderStart(b)
    \/ \E b \in Bidders, i \in Tasks : BidderFreq(b, i)
    \/ \E b \in Bidders, i \in Tasks : BidderBudget(b, i)
    \/ \E b \in Bidders : BidderRank(b)
    \/ \E b \in Bidders : BidderRecord(b)

SpecRace == RaceInit /\ [][RaceNext]_vars

\* The sliding-window controller over its sorted sets, with the clock.
WindowInit == FreqInit

WindowNext ==
    \/ \E k \in WindowKeys, l \in Limits, w \in Windows : CheckFrequency(k, l, w)
    \/ \E k \in WindowKeys, w \in Windows : RecordFrequency(k, w)
    \/ Tick

SpecWindow == WindowInit /\ [][WindowNext]_vars

\* One call of engine.go's ProcessBid.  Every goroutine that can take a step
\* eventually takes one: the scheduler starves none, and the store calls of
\* the tasks return.
GoInit == FreqInit

GoSteps ==
    \/ GoTaskReturns
    \/ GoTaskReady
    \/ GoTaskSend
    \/ GoCloser
    \/ GoReceive
    \/ GoReturn

GoNext ==
    \/ \E valid \in BOOLEAN, ads \in 0 .. MaxAds : GoProcessBid(valid, ads)
    \/ GoSteps

SpecGo == GoInit /\ [][GoNext]_vars /\ WF_vars(GoSteps)

\* The call of part_014 with its goroutines scheduled fairly: a step of the
\* call that stays possible is eventually taken.
EngineSteps ==
    \/ ListFails
    \/ ListAndSpawn
    \/ \E i \in Tasks : TaskFreq(i)
    \/ \E i \in Tasks : TaskBudget(i)
    \/ \E i \in Tasks : TaskSend(i)
    \/ \E i \in Tasks : TaskPanic(i)
    \/ Closer
    \/ Receive
    \/ Rank
    \/ RecordWinner
    \/ Respond

SpecEngineFair == SpecEngine /\ WF_vars(EngineSteps)

-----------------------------------------------------------------------------
(* The budget ledger's claims *)

Cap(id) == budgets["m1"][id].Amount
Quiet == \A p \in Callers : cpc[p] = "idle"

\* C2: on a Manager that alone changes the remote counter of a budget added
\* with spent 0, the in-memory spent never exceeds the cap, and no two calls
\* on one Manager are between their local check and their increment together.
C2_SpentWithinCap ==
    /\ \A m \in Managers, id \in BudgetIDs :
          landedBy[id] \subseteq {m} => budgets[m][id].Spent <= budgets[m][id].Amount
    /\ \A p, q \in Callers :
          (p # q /\ InFlight(p) /\ InFlight(q)) => carg[p].m # carg[q].m

\* Two deductions on one Manager have used the cap up, a third call is past
\* its local check on another Manager.
C2_Witness ==
    \E id \in BudgetIDs :
        /\ landedBy[id] = {"m1"}
        /\ budgets["m1"][id].Spent = budgets["m1"][id].Amount
        /\ \E p \in Callers : InFlight(p) /\ carg[p].m = "m2"

\* C3: once every call made has returned ok, the remote counter has grown by
\* exactly the sum of the amounts of those calls, in minor units.
C3_CounterIsSumOfDeductions ==
    \A id \in BudgetIDs : (Quiet /\ allOk) => remote[id] = okCents[id]

-----------------------------------------------------------------------------
(* The frequency controller's claims *)

Checked == chk.err = "nil"

\* C8 as stated: a check is allowed exactly when the impressions recorded for
\* the pair and not yet expired, over all counters, number fewer than the
\* limit in force.
C8_AllowedIffUnexpiredBelowLimit ==
    Checked => (chk.allowed <=> chk.belowUnexpired)

\* C8: a check is allowed exactly when the impressions recorded for the pair
\* on the current calendar day number fewer than the limit in force (the
\* stored override, else the default 10; no counter counts as 0).
C8_AllowedIffTodayBelowLimit ==
    Checked => (chk.allowed <=> chk.belowToday)

\* a check on a new day is allowed although the earlier day's counter has
\* reached the limit and has not expired
C8_Witness ==
    /\ Checked
    /\ chk.allowed
    /\ ~chk.belowUnexpired
    /\ \E d \in Days : d < DayOf(now) /\ Alive(impKey(chk.user, chk.target, d))

-----------------------------------------------------------------------------
(* The engine's claims *)

Returned == mpc = "done" /\ nReq > 0
Responded == Returned /\ result.err = "nil"

\* the strategy a response was built from: the ID inside the rendered ad_id
Winner == IF result.AdID = <<>> THEN "" ELSE result.AdID[2]
Running(i) == tpc[i] \in {"freq", "budget", "send"}
Value(c) == c.BidPrice * c.CTR
Range(seq) == {seq[i] : i \in 1 .. Len(seq)}

\* C1: a call with an empty user id or no ad slot returns ErrInvalidBidRequest
\* having made no repository, frequency or budget call, and budget and
\* frequency state are what they were when the call started.
C1_InvalidRequestHasNoEffect ==
    (Returned /\ (req.UserID = "" \/ req.AdSlots = <<>>)) =>
        /\ result.err = "ErrInvalidBidRequest"
        /\ calls = NoCalls
        /\ Snapshot = before

\* a second call, refused for its empty slot list, after a first call that bid
C1_Witness ==
    /\ Returned
    /\ req.UserID # ""
    /\ req.AdSlots = <<>>
    /\ result.err = "ErrInvalidBidRequest"
    /\ \E id \in DOMAIN remote : remote[id] > 0

\* C5: when the collected candidates have pairwise distinct effective values,
\* the response names the one with the highest, in whatever order they arrived.
C5_HighestValueWins ==
    (Responded /\ \A i, j \in 1 .. Len(arrival) :
                      i # j => Value(arrival[i]) # Value(arrival[j])) =>
        \A c \in Range(arrival) :
            /\ c.BidPrice <= result.BidPrice
            /\ c.BidPrice = result.BidPrice => c.ID = Winner

\* the highest of two distinct candidates arrived last and won
C5_Witness ==
    /\ Responded
    /\ Len(arrival) = 2
    /\ Value(arrival[1]) < Value(arrival[2])
    /\ Winner = arrival[2].ID

\* the first to arrive among the candidates of highest effective value
FirstTop ==
    LET top == CHOOSE i \in 1 .. Len(arrival) :
                  /\ \A j \in 1 .. Len(arrival) : Value(arrival[j]) <= Value(arrival[i])
                  /\ \A j \in 1 .. (i - 1) : Value(arrival[j]) < Value(arrival[i])
    IN arrival[top]

\* C6: the response names the candidate that arrived first among those of
\* highest effective value.
C6_TieGoesToFirstArrival ==
    Responded => Winner = FirstTop.ID

\* C7: once the caller's context is done, ProcessBid's own goroutine can go
\* on (take a candidate from the channel, or rank what it has) without any
\* evaluation task taking a step.
C7_DeadlineEndsWaiting ==
    (mpc = "collect" /\ ctxDone) => ENABLED (Receive \/ Rank)

\* C9: when some strategy passed its frequency check, its price range check
\* and its budget deduction, the call returns a response naming a strategy
\* that passed, whatever happened to the others; a call that got its listing
\* returns either a response or ErrNoAvailableAds.
C9_CandidateErrorsAreNotFatal ==
    (Returned /\ calls.list > 0 /\ result.err \notin {"ErrRepository", "panic"}) =>
        /\ (\E i \in Tasks : tnote[i] = "sent") =>
              /\ result.err = "nil"
              /\ \E i \in Tasks : tnote[i] = "sent" /\ strategies[i].ID = Winner
        /\ result.err \in {"nil", "ErrNoAvailableAds"}

\* one strategy passed, the other was dropped on a store error
C9_Witness ==
    /\ Responded
    /\ \E i, j \in Tasks :
          /\ tnote[i] = "sent"
          /\ tnote[j] \in {"freqErr", "budgetErr"}

\* C10: the WaitGroup counts exactly the tasks still running, a panicked task
\* included in the count until it ends; the channel is closed only when none
\* runs; when none runs ProcessBid's goroutines can go on; and a call in which
\* a task panicked returns a response or ErrNoAvailableAds, never naming the
\* panicked task's strategy.
C10_PanicIsContained ==
    /\ mpc = "collect" => wg = Cardinality({i \in Tasks : Running(i)})
    /\ closed => \A i \in Tasks : ~Running(i)
    /\ (mpc = "collect" /\ \A i \in Tasks : ~Running(i)) =>
          ENABLED (Closer \/ Receive \/ Rank)
    /\ (Returned /\ \E i \in Tasks : tnote[i] = "panic") =>
          /\ closed
          /\ result.err \in {"nil", "ErrNoAvailableAds"}
          /\ \A i \in Tasks :
                tnote[i] = "panic" =>
                    /\ strategies[i].ID \notin {c.ID : c \in Range(arrival)}
                    /\ Winner # strategies[i].ID

\* one task panicked, its sibling's candidate won
C10_Witness ==
    /\ Responded
    /\ closed
    /\ \E i, j \in Tasks :
          /\ tnote[i] = "panic"
          /\ tnote[j] = "sent"
          /\ Winner = strategies[j].ID

\* C11: a strategy whose CheckImpression returned an error is not sent to the
\* channel, is not collected, does not win, and its budget is not deducted in
\* that call.
C11_FrequencyErrorIsNotEligible ==
    \A i \in Tasks :
        tfreq[i] = "err" =>
            LET id == strategies[i].ID IN
            /\ tpc[i] \notin {"budget", "send"}
            /\ id \notin {c.ID : c \in Range(resultChan) \cup Range(candidates)}
            /\ Winner # id
            /\ remote[getBudgetKey(id)] = before.remote[getBudgetKey(id)]
            /\ budgets[EngineManager][id] = before.budgets[EngineManager][id]

\* the higher-priced strategy's check failed on a store error; the other won
C11_Witness ==
    /\ Responded
    /\ \E i, j \in Tasks :
          /\ tfreq[i] = "err"
          /\ strategies[i].BidType = CPM /\ strategies[j].BidType = CPM
          /\ strategies[i].Price > strategies[j].Price
          /\ Winner = strategies[j].ID

-----------------------------------------------------------------------------
(* The budget ledger's claims about single calls *)

\* a step in which a CheckAndDeduct call takes the lock and runs its checks
CallStarts == nCalls' = nCalls + 1
\* the call went on to the remote increment
CallPassed == cpc' # cpc
\* the arguments of the call that starts
CallArg ==
    IF CallPassed
    THEN LET p == CHOOSE q \in Callers : cpc'[q] # cpc[q]
         IN [m |-> carg'[p].m, id |-> carg'[p].id, amount |-> carg'[p].amount]
    ELSE [m |-> ret'.m, id |-> ret'.id, amount |-> ret'.amount]
\* the call is for a budget the Manager holds, and that budget is active
OnActiveBudget ==
    /\ CallArg.id \in DOMAIN budgets[CallArg.m]
    /\ budgets[CallArg.m][CallArg.id].Status = "active"
CallBudget == budgets[CallArg.m][CallArg.id]

\* C12: a call for an active budget inside its window, whose amount added to
\* the in-memory spent exceeds the cap, returns ok = false and no error, and
\* changes neither the remote counter nor the in-memory records.
C12_ExceededIsNegativeResult ==
    [][(/\ CallStarts
        /\ OnActiveBudget
        /\ CallBudget.StartTime <= now /\ now < CallBudget.EndTime
        /\ CallBudget.Spent + CallArg.amount > CallBudget.Amount)
       => (/\ ~CallPassed
           /\ ret'.ok = FALSE
           /\ ret'.err = "nil"
           /\ remote' = remote
           /\ budgets' = budgets)]_vars

\* C13: a call for an active budget is rejected with ErrBudgetExpired exactly
\* when the clock is before the start or at or after the end of the window.
C13_WindowIsHalfOpen ==
    [][(CallStarts /\ OnActiveBudget)
       => ((~CallPassed /\ ret'.err = "ErrBudgetExpired")
              <=> (now < CallBudget.StartTime \/ now >= CallBudget.EndTime))]_vars

\* what holds of the recording: a call that returns a response has called
\* RecordImpression once, for the winner, and no other pair's counter has
\* changed; a call that returns an error has recorded nothing
OneImpressionForTheWinner ==
    /\ Responded =>
          /\ calls.record = 1
          /\ calls.target = Winner
          /\ \A k \in DOMAIN fstore : k[2] # Winner => fstore[k] = before.fstore[k]
    /\ (Returned /\ result.err # "nil") =>
          /\ calls.record = 0
          /\ fstore = before.fstore

\* C14: exactly one impression is recorded, for the winner, by a call that
\* returns a response and none by a call that returns an error; and once the
\* winner is chosen the response can be returned without the RecordImpression
\* call having completed.
C14_ImpressionIsFireAndForget ==
    /\ OneImpressionForTheWinner
    /\ mpc = "record" => ENABLED Respond

\* C15: a call with a user id and one CPM slot of range [1.0, 10.0], for which
\* the repository lists an enabled CPM strategy whose listed price lies in
\* the slot's range, and whose frequency check allowed and budget call was
\* not refused, returns a response.
C15_ListedPriceInRangeBids ==
    (/\ Returned
     /\ req.UserID # ""
     /\ req.AdSlots = <<Slot(CPM)>>
     /\ calls.list > 0
     /\ result.err # "ErrRepository"
     /\ \E i \in 1 .. Len(strategies) :
           /\ strategies[i].Status = 1
           /\ strategies[i].BidType = CPM
           /\ strategies[i].Price * MillsPerUnit >= req.AdSlots[1].MinPrice
           /\ strategies[i].Price * MillsPerUnit <= req.AdSlots[1].MaxPrice
           /\ tfreq[i] = "ok"
           /\ tnote[i] \notin {"budgetRefused", "budgetErr", "panic"})
    => result.err = "nil"

\* C16: every collected candidate's bid price is its strategy's price times
\* the predicted CTR (in hundredths) for CPC and its strategy's price over
\* 1000 for CPM, and the response's ad_id is the winner's id and its bid price
\* that price; with one enabled CPM strategy of price 5000 that was not
\* dropped, the response carries that strategy's id with bid price 5.0.
C16_BidPriceByBillingType ==
    /\ \A c \in Range(arrival) :
          \E i \in 1 .. Len(strategies) :
             /\ strategies[i].ID = c.ID
             /\ strategies[i].BidType = CPC =>
                   100 * c.BidPrice = strategies[i].Price * MillsPerUnit * c.CTR
             /\ strategies[i].BidType = CPM =>
                   1000 * c.BidPrice = strategies[i].Price * MillsPerUnit
    /\ Responded => \E c \in Range(arrival) :
                       /\ result.AdID = Text(c.ID)
                       /\ c.BidPrice = result.BidPrice
    /\ (/\ Returned
        /\ Len(strategies) = 2
        /\ strategies[1].Status = 1 /\ strategies[1].BidType = CPM
        /\ strategies[1].Price = 5000
        /\ strategies[2].Status = 0
        /\ tnote[1] = "sent")
       => (/\ result.err = "nil"
           /\ result.AdID = Text(strategies[1].ID)
           /\ result.BidPrice = 5 * MillsPerUnit)

\* C17: when the only strategy a task was started for reaches its budget
\* check with the budget's spent equal to its cap, the call returns
\* ErrNoAvailableAds, the budget's record and remote counter are as they were
\* when the call started, and no impression is recorded.
C17_ExhaustedBudgetGivesNoAds ==
    \A i \in Tasks :
        (/\ Returned
         /\ tcand[i] # NoCand
         /\ \A j \in Tasks \ {i} : tpc[j] = "none"
         /\ before.budgets[EngineManager][tcand[i].ID].Spent
               = before.budgets[EngineManager][tcand[i].ID].Amount)
        => (/\ result.err = "ErrNoAvailableAds"
            /\ budgets[EngineManager][tcand[i].ID]
                  = before.budgets[EngineManager][tcand[i].ID]
            /\ remote[getBudgetKey(tcand[i].ID)]
                  = before.remote[getBudgetKey(tcand[i].ID)]
            /\ calls.record = 0
            /\ fstore = before.fstore)

\* the only candidate was refused by its exhausted budget
C17_Witness ==
    /\ Returned
    /\ result.err = "ErrNoAvailableAds"
    /\ \E i \in Tasks :
          /\ tnote[i] = "budgetRefused"
          /\ \A j \in Tasks \ {i} : tpc[j] = "none"
          /\ budgets[EngineManager][tcand[i].ID].Spent
                = budgets[EngineManager][tcand[i].ID].Amount
          /\ budgets[EngineManager][tcand[i].ID].Spent > 0

-----------------------------------------------------------------------------
(* The strategy repository's claims *)

\* C18: a row keeps the lock flag it was created with; a row created locked
\* keeps the price it was created with; the row last written by an
\* UpdateBidStrategy has that update's name, daily budget and status, and its
\* price too when the row is unlocked; the row last written by an
\* UpdateBidStrategyStatus has that status.
C18_LockedPriceIsKept ==
    \A id \in DOMAIN table :
        /\ table[id].is_price_locked = created[id].locked
        /\ created[id].locked = 1 => table[id].price = created[id].price
        /\ (last.id = id /\ last.kind = "update") =>
              /\ table[id].name = last.name
              /\ table[id].daily_budget = last.daily_budget
              /\ table[id].status = last.status
              /\ created[id].locked = 0 => table[id].price = last.price
        /\ (last.id = id /\ last.kind = "status") => table[id].status = last.status

\* a locked row took an update's name and kept its price against the update's
C18_Witness ==
    \E id \in DOMAIN table :
        /\ created[id].locked = 1
        /\ last.id = id /\ last.kind = "update"
        /\ last.price # created[id].price
        /\ table[id].name = last.name
        /\ table[id].price = created[id].price

-----------------------------------------------------------------------------
(* The budget administration's claims *)

StatusCall == stat'.n = stat.n + 1

\* C19: a GetBudgetStatus call changes no Manager's budget map and no remote
\* total; a call that follows another for the same budget at the same clock,
\* with no CheckAndDeduct, AddBudget or UpdateBudget between them, returns the
\* same status and error as that one.
C19_StatusIsReadOnly ==
    [][StatusCall =>
          /\ budgets' = budgets
          /\ remote' = remote
          /\ (/\ stat.n > 0
              /\ stat'.m = stat.m /\ stat'.id = stat.id
              /\ stat'.at = stat.at /\ stat'.ops = stat.ops) =>
                 (stat'.val = stat.val /\ stat'.err = stat.err)]_vars

\* a second status of a partly spent budget, nothing having happened since
\* the first
C19_Witness ==
    /\ stat.n >= 2
    /\ stat.again
    /\ stat.err = "nil"
    /\ stat.val.Spent > 0
    /\ stat.val.Remaining > 0

AdminCall == adm'.n = adm.n + 1

\* C20: an AddBudget for an id the Manager already holds fails with
\* ErrBudgetAlreadyExists and leaves every record as it was; an UpdateBudget
\* for an id the Manager does not hold fails with ErrBudgetNotFound and
\* leaves every map as it was; no step removes an id from a Manager, and a
\* step that adds one is an AddBudget that returned no error.
C20_IdsGrowOnlyByAdd ==
    [][/\ \A m \in Managers : DOMAIN budgets[m] \subseteq DOMAIN budgets'[m]
       /\ (\E m \in Managers : DOMAIN budgets'[m] # DOMAIN budgets[m]) =>
             (AdminCall /\ adm'.op = "add" /\ adm'.err = "nil")
       /\ (AdminCall /\ adm'.op = "add"
              /\ adm'.id \in DOMAIN budgets[adm'.m]) =>
             (adm'.err = "ErrBudgetAlreadyExists" /\ budgets' = budgets)
       /\ (AdminCall /\ adm'.op = "update"
              /\ adm'.id \notin DOMAIN budgets[adm'.m]) =>
             (adm'.err = "ErrBudgetNotFound" /\ budgets' = budgets)]_vars

\* an AddBudget was refused for an id whose record has been spent from since
\* it was added, and the record still differs from every budget a caller
\* could have passed
C20_Witness ==
    /\ adm.op = "add"
    /\ adm.err = "ErrBudgetAlreadyExists"
    /\ adm.id \in DOMAIN budgets[adm.m]
    /\ \A b \in BudgetInputs : budgets[adm.m][adm.id] # b.rec

-----------------------------------------------------------------------------
(* The frequency controller's claims about its configuration and counters *)

C22_ExpiryIsTheConfiguredWindow ==
    [][\A u \in Users, t \in Targets, d \in Days :
          recordedOn'[u][t][d] # recordedOn[u][t][d] =>
             /\ fstore'[impKey(u, t, d)].n = StoreGet(impKey(u, t, d)) + 1
             /\ fstore'[impKey(u, t, d)].exp = now + getConfig(t).TimeWindow]_vars

-----------------------------------------------------------------------------
(* The traffic handler's claims *)

\* C23: while or after HandleRequest handles a request, the engine has been
\* called for it only if validateRequest returned nil and CheckTargeting
\* returned true with no error; a request whose CheckTargeting failed is
\* answered 503 and one that failed validation 400, and when either answer
\* is given the engine has not been called for the request and the budgets,
\* the remote totals and the frequency counters are what they were when the
\* request came in.
C23_TargetingGatesBidding ==
    /\ (hpc # "idle" /\ nReq # hobs.nReq) =>
          (hobs.verr = "nil" /\ hobs.targeting = "true")
    /\ (hpc = "done" /\ hobs.targeting = "err") =>
          hresp = StatusServiceUnavailable
    /\ (hpc = "done" /\ hobs.verr \notin {"none", "nil", "limited", "unparsed"}) =>
          hresp = StatusBadRequest
    /\ (hpc = "done" /\ hresp \in {StatusBadRequest, StatusServiceUnavailable}) =>
          (nReq = hobs.nReq /\ Snapshot = hobs.snap)

\* a request was answered 503 on a targeting error, after an earlier one had
\* reached the engine
C23_Witness ==
    /\ hpc = "done"
    /\ hobs.targeting = "err"
    /\ hresp = StatusServiceUnavailable
    /\ nReq > 0
    /\ nReq = hobs.nReq

-----------------------------------------------------------------------------
(* The engine's claims about what a call does and returns *)

\* C24: when ProcessBid has returned an error that is neither
\* ErrInvalidBidRequest nor ErrNoAvailableAds, the error is the repository's,
\* the listing was asked for once and did not arrive, and the call made no
\* frequency check, no budget deduction and no impression recording: the
\* budgets, the remote totals and the frequency counters are as the call
\* found them.
C24_OnlyTheRepositoryErrorPropagates ==
    (mpc = "done"
        /\ result.err \notin {"nil", "ErrInvalidBidRequest", "ErrNoAvailableAds"}) =>
       /\ result.err = "ErrRepository"
       /\ calls.list = 1
       /\ strategies = <<>>
       /\ calls.check = 0 /\ calls.deduct = 0 /\ calls.record = 0
       /\ \A i \in Tasks : tpc[i] = "none"
       /\ Snapshot = before

\* the repository failed for a second call, after a first one had won and
\* been charged
C24_Witness ==
    /\ mpc = "done"
    /\ result.err = "ErrRepository"
    /\ \E id \in DOMAIN remote : remote[id] > 0
    /\ \E k \in DOMAIN fstore : fstore[k].n > 0

-----------------------------------------------------------------------------
(* The RTA ConfigManager's claims *)

\* C25: with the calls taken in the order in which they got the lock,
\* GetConfig(id) returns the config of the last SetConfig for id when no
\* RemoveConfig(id) came after it, and reports the id absent otherwise;
\* ListConfigs returns one entry for each task id set at that point, the
\* config last set for it, and nothing else.
C25_ConfigManagerIsAMap ==
    /\ rret.op = "get" =>
          /\ rret.exists = (rret.id \in DOMAIN rret.expect)
          /\ rret.config = (IF rret.id \in DOMAIN rret.expect
                            THEN rret.expect[rret.id] ELSE Absent)
    /\ rret.op = "list" =>
          /\ \A i, j \in 1 .. Len(rret.list) :
                rret.list[i].TaskID = rret.list[j].TaskID => i = j
          /\ {rret.list[i].TaskID : i \in 1 .. Len(rret.list)} = DOMAIN rret.expect
          /\ \A i \in 1 .. Len(rret.list) :
                rret.list[i] = rret.expect[rret.list[i].TaskID]

\* ListConfigs returned both tasks while another caller was waiting to write
C25_Witness ==
    /\ rret.op = "list"
    /\ Len(rret.list) = Cardinality(TaskIDs)
    /\ \E c \in RtaCallers : rpc[c] = "lock" /\ rarg[c].op \in {"set", "remove"}

-----------------------------------------------------------------------------
(* The budget ledger's claims about failed calls *)

\* a step in which a CheckAndDeduct call that had passed the local checks
\* returns
IncrReturns == \E p \in Callers : cpc[p] = "incr" /\ cpc'[p] = "idle"

\* C26: a CheckAndDeduct call that the local checks reject (budget not found,
\* inactive, outside its window, or insufficient) returns not ok with the
\* check's error, changes no remote counter and leaves every in-memory budget
\* record, spent and update time included, as it was; a call that returns
\* not ok after its remote increment failed returns an error and leaves
\* every in-memory record as it was too.
C26_FailedCallsChangeNothing ==
    [][/\ (CallStarts /\ ~CallPassed) =>
             /\ ret'.ok = FALSE
             /\ ret'.err \in {"ErrBudgetNotFound", "ErrBudgetInactive",
                              "ErrBudgetExpired", "ErrBudgetExceeded"}
             /\ remote' = remote
             /\ budgets' = budgets
       /\ (IncrReturns /\ ~ret'.ok) =>
             /\ ret'.err \notin {"nil", "none"}
             /\ budgets' = budgets]_vars

\* the remote increment of a call failed on a budget that an earlier call has
\* spent from, before the clock moved on
C26_Witness ==
    /\ ret.err = "ErrRedis"
    /\ ~ret.ok
    /\ ret.id \in DOMAIN budgets[ret.m]
    /\ budgets[ret.m][ret.id].Spent > 0
    /\ budgets[ret.m][ret.id].UpdateTime = now

-----------------------------------------------------------------------------
(* The engine's claims about the evaluation tasks *)

\* task i has come to its CheckAndDeduct call, or has been through it
AtOrPastDeduct(i) ==
    \/ tpc[i] \in {"budget", "send"}
    \/ tnote[i] \in {"budgetRefused", "budgetErr", "sent"}

\* the strategy of task i is enabled, of a billing type the first slot
\* takes, was allowed by its frequency check, and its price is positive and
\* inside the first slot's range
PassedEveryGate(i) ==
    LET s == strategies[i]
        slot == req.AdSlots[1]
        price == calculateFinalBidPrice(s, predictCTR)
    IN /\ s.Status = 1
       /\ Contains(slot.BidType, s.BidType)
       /\ tfreq[i] = "ok"
       /\ price > 0
       /\ slot.MinPrice <= price /\ price <= slot.MaxPrice

C28_ResponseNamesAnEligibleStrategy ==
    Responded =>
        \E i \in Tasks :
            LET s == strategies[i]
                slot == req.AdSlots[1]
            IN /\ tpc[i] # "none"
               /\ s.ID = Winner
               /\ result.AdID = Sprintf_d(s.ID)
               /\ s.Status = 1
               /\ Contains(slot.BidType, s.BidType)
               /\ tfreq[i] = "ok"
               /\ tnote[i] = "sent"
               /\ tcand[i].BidPrice = result.BidPrice
               /\ remote[getBudgetKey(s.ID)]
                     >= before.remote[getBudgetKey(s.ID)] + ToCents(result.BidPrice)
               /\ slot.MinPrice <= result.BidPrice
               /\ result.BidPrice <= slot.MaxPrice

\* a response after two tasks ran: one was turned away and the other one's
\* strategy is in the response
C28_Witness ==
    /\ Responded
    /\ \E i, j \in Tasks :
          /\ strategies[i].ID = Winner
          /\ tnote[i] = "sent"
          /\ tnote[j] \in {"outOfRange", "freqDenied", "freqErr",
                           "budgetRefused", "budgetErr"}

-----------------------------------------------------------------------------
(* The engine's claims about slots and about concurrent calls *)

\* C29: two calls of ProcessBid whose requests are equal except for the
\* slots after the first one, run from the same catalog, budget and frequency
\* state under the same scheduling, return the same error or the same winner
\* at the same bid price and leave the same budget records and remote
\* counters (neither writes the frequency store).
C29_LaterSlotsDoNotMatter ==
    (sout[1].err # "none" /\ sout[2].err # "none") => sout[1] = sout[2]

\* C30: under any interleaving of concurrent ProcessBid calls for one user,
\* the impressions recorded for a (user, strategy) pair on one calendar day
\* exceed the impression limit in force by at most 1.
C30_OvershootAtMostOne ==
    \A t \in Targets : \A d \in Days :
        recordedOn[RaceRequest.UserID][t][d] <= LimitInForce(t) + 1

-----------------------------------------------------------------------------
(* The sliding-window controller's claims *)

\* C31: the count CheckFrequency compares against the limit is the number of
\* RecordFrequency calls made for the key with a timestamp inside the window
\* (the window taken with or without its oldest instant, now minus the
\* window), also when several records carry one timestamp, and allowed is
\* true exactly when that count is below the limit.
C31_CountIsTheRecordsInTheWindow ==
    zret.err = "nil" =>
        /\ zret.count \in {zret.after, zret.from}
        /\ zret.allowed <=> (zret.count < zret.limit)

-----------------------------------------------------------------------------
(* The budget ledger's claims about what a deduction stores *)

\* a step in which a CheckAndDeduct call returns (true, nil)
OkReturns ==
    /\ \E p \in Callers : cpc[p] \in {"incr", "incr2"} /\ cpc'[p] = "idle"
    /\ ret'.ok

\* C32: when a CheckAndDeduct call returns (true, nil), the in-memory spent
\* of its budget in its Manager is the value of the remote counter
\* budget:spent:{id} at that moment, converted to major units.
C32_SpentIsTheCounterAfterSuccess ==
    [][OkReturns =>
          budgets'[ret'.m][ret'.id].Spent
             = FromCents(remote'[getBudgetKey(ret'.id)])]_vars

\* C33: a CheckAndDeduct call with a positive amount that returns
\* (true, nil) raises the remote counter of its budget by a positive number
\* of minor units that is the amount in minor units.
C33_PositiveAmountIsDeducted ==
    [][(OkReturns /\ ret'.amount > 0) =>
          LET raised == remote'[getBudgetKey(ret'.id)] - remote[getBudgetKey(ret'.id)]
          IN /\ raised > 0
             /\ raised * MillsPerCent = ret'.amount]_vars

-----------------------------------------------------------------------------
(* The engine's claims about its goroutines *)

\* the channel is closed at most once, only after every task has finished,
\* and no task is left to send on it
CloseIsSafe ==
    /\ gobs.closes <= 1
    /\ gclosed => (grun = 0 /\ gsend = 0 /\ gwg = 0)

\* C34 as stated: no task ever finds the buffer full at its send, the
\* channel is closed once and only after every task has finished, and a call
\* that has started its tasks returns.
C34_TerminatesWithoutWaiting ==
    /\ [](~gobs.waited /\ CloseIsSafe)
    /\ (gpc = "collect") ~> (gpc = "done")

\* C34 amended: a task may find the buffer of 10 full at its send, but the
\* collector makes room and the send completes; the channel is closed once
\* and only after every task has finished, no task sends on the closed
\* channel, and a call that has started its tasks returns, every candidate
\* sent having been received.
C34_TerminatesAndSendsComplete ==
    /\ [](CloseIsSafe)
    /\ [](gpc = "done" => (grun = 0 /\ gsend = 0 /\ gchan = 0 /\ gwg = 0))
    /\ (gsend > 0) ~> (gsend = 0)
    /\ (gpc = "collect") ~> (gpc = "done")

\* a call with more candidates than the buffer holds, in which a task found
\* the buffer full, has returned with all of them received
C34_Witness ==
    /\ gpc = "done"
    /\ gobs.waited
    /\ gclosed
    /\ ggot = gobs.ads

\* In part_014 the buffer holds one candidate per listed strategy
\* (make(chan *BidCandidate, len(strategies)), line 136): a task at its send
\* always finds room, the channel is closed only after every task has
\* finished, and a call that has started its tasks returns.
TasksNeverWaitIn014 ==
    /\ [](\A i \in Tasks : tpc[i] = "send" => Len(resultChan) < Len(strategies))
    /\ [](closed => \A i \in Tasks : tpc[i] \in {"none", "done"})
    /\ (mpc = "collect") ~> (mpc = "done")

-----------------------------------------------------------------------------
(* The engine's claims about what a call charges *)

\* what the candidates collected for strategy id come to, in minor units
Collected(id) ==
    LET Sum[n \in 0 .. Len(arrival)] ==
            IF n = 0 THEN 0
            ELSE Sum[n - 1]
                 + (IF arrival[n].ID = id THEN ToCents(arrival[n].BidPrice) ELSE 0)
    IN Sum[Len(arrival)]

\* C35: when a ProcessBid call has returned, every strategy whose task passed
\* the frequency check, the price-range check and the budget check has been
\* charged its bid price, winner or not: its candidate was collected, and
\* for every strategy the remote counter stands above its value at the start
\* of the call by exactly the prices (in minor units) of the candidates
\* collected for it, the in-memory spent following the counter; nothing is
\* given back to a candidate that did not win.
C35_LosersAreChargedToo ==
    Returned =>
        /\ \A i \in Tasks :
              tnote[i] = "sent" => \E n \in 1 .. Len(arrival) : arrival[n] = tcand[i]
        /\ \A n \in 1 .. Len(arrival) :
              \E i \in Tasks : tnote[i] = "sent" /\ tfreq[i] = "ok"
                                 /\ tcand[i] = arrival[n]
        /\ \A id \in DOMAIN remote :
              /\ remote[id] - before.remote[id] = Collected(id)
              /\ Collected(id) > 0 =>
                    budgets[EngineManager][id].Spent = FromCents(remote[id])

\* a call answered with one of two collected candidates; the other one's
\* budget was charged as well
C35_Witness ==
    /\ Responded
    /\ Len(arrival) = 2
    /\ \E n \in 1 .. 2 :
          /\ arrival[n].ID # Winner
          /\ remote[getBudgetKey(arrival[n].ID)]
                = before.remote[getBudgetKey(arrival[n].ID)]
                     + ToCents(arrival[n].BidPrice)
          /\ arrival[n].BidPrice > 0

-----------------------------------------------------------------------------
(* The budget ledger's claims about what GetBudgetStatus reports *)

\* the last GetBudgetStatus call found its budget, and the record and the
\* clock are still what the call read
StatusIsFresh ==
    /\ stat.n > 0 /\ stat.err = "nil"
    /\ stat.at = now
    /\ Exists(stat.m, stat.id)
    /\ budgets[stat.m][stat.id].Status = stat.val.Status
    /\ budgets[stat.m][stat.id].StartTime = stat.val.StartTime
    /\ budgets[stat.m][stat.id].EndTime = stat.val.EndTime

\* C36: for every budget and every clock value, GetBudgetStatus reports
\* IsActive = true exactly when CheckAndDeduct at that clock value would
\* reject the budget neither with ErrBudgetInactive nor with
\* ErrBudgetExpired, the instants now = StartTime and now = EndTime included.
C36_IsActiveAgreesWithTheChecks ==
    StatusIsFresh =>
        (stat.val.IsActive
           <=> RecordCheck(budgets[stat.m][stat.id], 0)
                  \notin {"ErrBudgetInactive", "ErrBudgetExpired"})

-----------------------------------------------------------------------------
(* The handler's claim about a request that can be filled *)

\* the handler has answered a request that passed validation and targeting
\* and was handed to the engine
Answered ==
    /\ hpc = "done"
    /\ hobs.verr = "nil" /\ hobs.targeting = "true"
    /\ nReq = hobs.nReq + 1
    /\ Returned

\* strategy s of the catalog is enabled, bills by a known billing type, bids
\* within the price range of the request's first slot, and had, when the
\* request came in, the budget for its bid and no impression counted
Fillable(s) ==
    LET bidPrice == calculateFinalBidPrice(s, predictCTR)
        b == hobs.snap.budgets[EngineManager][s.ID]
    IN /\ s.Status = 1
       /\ s.BidType \in {CPM, CPC}
       /\ hreq.AdSlots[1].MinPrice <= bidPrice
       /\ bidPrice <= hreq.AdSlots[1].MaxPrice
       /\ b.Status = "active"
       /\ b.Spent + bidPrice <= b.Amount
       /\ \A k \in DOMAIN hobs.snap.fstore : hobs.snap.fstore[k].n = 0

\* a store, the repository or a task failed during the call, or the call
\* was cancelled
Disturbed ==
    \/ result.err \notin {"nil", "ErrNoAvailableAds"}
    \/ ctxDone
    \/ \E i \in Tasks : tnote[i] \in {"freqErr", "budgetErr", "panic"}

\* C37: when HandleRequest has answered a request that passed validation and
\* targeting, the catalog held a strategy that is enabled, in range, with
\* budget and frequency headroom, and nothing failed during the call, the
\* engine was handed a first slot whose billing type names that strategy's
\* and the answer carries a result.
C37_HandlerCanBeFilled ==
    (Answered /\ ~Disturbed) =>
        \A i \in 1 .. Len(repo) :
            Fillable(repo[i]) =>
                /\ Contains(req.AdSlots[1].BidType, repo[i].BidType)
                /\ result.err = "nil"
                /\ result.AdID # <<>>

\* what the model shows instead: no request entering through HandleRequest
\* is ever answered with a result, whatever the catalog holds
HandlerNeverFills == Answered => result.err # "nil"

====
